---- MODULE Spec2Model ----
(***************************************************************************)
(* A model of the B2F session engine of wl2k-go (package fbb) and of the   *)
(* LZHUF codec (package lzhuf).                                            *)
(*                                                                         *)
(* Bytes are naturals 0..255, strings are sequences of bytes.  Every line  *)
(* the session writes or reads is kept byte for byte, and the conversions  *)
(* the code performs (Sprintf %d / %02X, Atoi, ParseInt base 16) are       *)
(* modelled digit by digit.                                                *)
(***************************************************************************)
EXTENDS Integers, Sequences, FiniteSets, TLC

(***************************************************************************)
(* Characters and strings                                                  *)
(***************************************************************************)

\* ASCII codes of the characters the protocol uses.
Asc ==
  [c \in {" ", "!", "*", "+", "-", "/", ":", ";", "=", ">", "[", "]", "$",
          "0", "1", "2", "3", "4", "5", "6", "7", "8", "9",
          "A", "B", "C", "D", "E", "F", "G", "H", "L", "M", "N", "P", "Q",
          "R", "S", "T", "W", "X", "Y", "Z",
          "a", "b", "c", "d", "e", "f", "h", "l", "n", "r", "x", "y",
          "(", ")", ".", "@", "I", "J", "K", "O", "U", "V",
          "g", "i", "k", "m", "o", "s", "t", "u", "w"} |->
     CASE c = " " -> 32 [] c = "!" -> 33 [] c = "*" -> 42 [] c = "+" -> 43
       [] c = "-" -> 45 [] c = "/" -> 47 [] c = ":" -> 58 [] c = ";" -> 59
       [] c = "=" -> 61 [] c = ">" -> 62 [] c = "[" -> 91 [] c = "]" -> 93
       [] c = "$" -> 36
       [] c = "0" -> 48 [] c = "1" -> 49 [] c = "2" -> 50 [] c = "3" -> 51
       [] c = "4" -> 52 [] c = "5" -> 53 [] c = "6" -> 54 [] c = "7" -> 55
       [] c = "8" -> 56 [] c = "9" -> 57
       [] c = "A" -> 65 [] c = "B" -> 66 [] c = "C" -> 67 [] c = "D" -> 68
       [] c = "E" -> 69 [] c = "F" -> 70 [] c = "G" -> 71 [] c = "H" -> 72
       [] c = "L" -> 76 [] c = "M" -> 77 [] c = "N" -> 78 [] c = "P" -> 80
       [] c = "Q" -> 81 [] c = "R" -> 82 [] c = "S" -> 83 [] c = "T" -> 84
       [] c = "W" -> 87 [] c = "X" -> 88 [] c = "Y" -> 89 [] c = "Z" -> 90
       [] c = "a" -> 97 [] c = "b" -> 98 [] c = "c" -> 99 [] c = "d" -> 100
       [] c = "e" -> 101 [] c = "f" -> 102 [] c = "h" -> 104 [] c = "l" -> 108
       [] c = "n" -> 110 [] c = "r" -> 114 [] c = "x" -> 120 [] c = "y" -> 121
       [] c = "(" -> 40 [] c = ")" -> 41 [] c = "." -> 46 [] c = "@" -> 64
       [] c = "I" -> 73 [] c = "J" -> 74 [] c = "K" -> 75 [] c = "O" -> 79
       [] c = "U" -> 85 [] c = "V" -> 86
       [] c = "g" -> 103 [] c = "i" -> 105 [] c = "k" -> 107 [] c = "m" -> 109
       [] c = "o" -> 111 [] c = "s" -> 115 [] c = "t" -> 116 [] c = "u" -> 117
       [] c = "w" -> 119]

\* The byte string spelled by a tuple of one-character strings.
Str(cs) == [i \in 1..Len(cs) |-> Asc[cs[i]]]

CR == 13

\* The sum of the bytes s[lo..hi], by halves to keep the evaluation shallow.
RECURSIVE SumRange(_, _, _)
SumRange(s, lo, hi) ==
  IF lo > hi THEN 0
  ELSE IF lo = hi THEN s[lo]
  ELSE LET mid == (lo + hi) \div 2
       IN  SumRange(s, lo, mid) + SumRange(s, mid + 1, hi)

SumBytes(s) == SumRange(s, 1, Len(s))

Concat(ss) ==
  LET RECURSIVE cat(_)
      cat(i) == IF i = 0 THEN << >> ELSE cat(i - 1) \o ss[i]
  IN  cat(Len(ss))

HasPrefix(s, p) == Len(s) >= Len(p) /\ SubSeq(s, 1, Len(p)) = p

\* s[k:] of Go, k counted from 0.
Drop(s, k) == SubSeq(s, k + 1, Len(s))

IsDigit(b) == b >= 48 /\ b <= 57

Min(a, b) == IF a < b THEN a ELSE b

(***************************************************************************)
(* Number conversions                                                      *)
(***************************************************************************)

\* fmt.Sprintf("%d", n)
RECURSIVE DecDigits(_)
DecDigits(n) == IF n < 10 THEN << 48 + n >> ELSE DecDigits(n \div 10) \o << 48 + (n % 10) >>

FmtDec(n) == IF n < 0 THEN << 45 >> \o DecDigits(0 - n) ELSE DecDigits(n)

HexDigit(d) == IF d < 10 THEN 48 + d ELSE 55 + d     \* upper case, as %X

\* fmt.Sprintf("%02X", n) for 0 <= n
RECURSIVE HexDigits(_)
HexDigits(n) == IF n < 16 THEN << HexDigit(n) >> ELSE HexDigits(n \div 16) \o << HexDigit(n % 16) >>

FmtHex02(n) == IF n < 16 THEN << 48, HexDigit(n) >> ELSE HexDigits(n)

\* strconv.Atoi with the error dropped: the value of an optionally signed
\* run of decimal digits, 0 on a syntax error.  (The digit runs of the model
\* stay far below 2^63, so the range error of Atoi is not modelled.)
Atoi(s) ==
  LET signed == Len(s) > 0 /\ s[1] \in {43, 45}
      ds     == IF signed THEN Drop(s, 1) ELSE s
      RECURSIVE val(_)
      val(i) == IF i = 0 THEN 0 ELSE 10 * val(i - 1) + (ds[i] - 48)
      v      == val(Len(ds))
      ok     == Len(ds) > 0 /\ \A i \in 1..Len(ds) : IsDigit(ds[i])
  IN  IF ~ok THEN 0
      ELSE IF signed /\ s[1] = 45 THEN 0 - v ELSE v

\* Whether strconv.Atoi reports an error.
AtoiErr(s) ==
  LET signed == Len(s) > 0 /\ s[1] \in {43, 45}
      ds     == IF signed THEN Drop(s, 1) ELSE s
  IN  ~(Len(ds) > 0 /\ \A i \in 1..Len(ds) : IsDigit(ds[i]))

HexVal(b) ==
  IF IsDigit(b) THEN b - 48
  ELSE IF b >= 65 /\ b <= 70 THEN b - 55
  ELSE IF b >= 97 /\ b <= 102 THEN b - 87
  ELSE 0 - 1

\* strconv.ParseInt(s, 16, 64) with the error dropped.
ParseHex(s) ==
  LET signed == Len(s) > 0 /\ s[1] \in {43, 45}
      ds     == IF signed THEN Drop(s, 1) ELSE s
      RECURSIVE val(_)
      val(i) == IF i = 0 THEN 0 ELSE 16 * val(i - 1) + HexVal(ds[i])
      v      == val(Len(ds))
      ok     == Len(ds) > 0 /\ \A i \in 1..Len(ds) : HexVal(ds[i]) >= 0
  IN  IF ~ok THEN 0
      ELSE IF signed /\ s[1] = 45 THEN 0 - v ELSE v

\* (-x) & 0xff on a two's complement int64
NegLow8(x) == (256 - (x % 256)) % 256

(***************************************************************************)
(* Proposals                                                               *)
(***************************************************************************)

\* ProposalAnswer values: the byte that stands for the answer in an FS line.
Accept == 43
Reject == 45
Defer  == 61
NoAnswer == 0      \* the zero value of a Proposal that was never answered

ProtocolOffsetSizeLimit == 999999
MaxBlockSize == 5
MaxMsgLength == 125

\* An outbound Proposal as msg.Proposal builds it: offset 0, no answer yet.
NewProposal(code, msgType, mid, size, data, title) ==
  [code |-> code, msgType |-> msgType, mid |-> mid, size |-> size,
   compressedSize |-> Len(data), compressedData |-> data, title |-> title,
   offset |-> 0, answer |-> NoAnswer, pendingMessage |-> << >>]

(***************************************************************************)
(* parseProposalAnswer                                                     *)
(***************************************************************************)

\* strings.LastIndexAny(str, "0123456789"), counted from 1; 0 when there is none.
LastDigitIndex(str) ==
  LET idx == {i \in 1..Len(str) : IsDigit(str[i])}
  IN  IF idx = {} THEN 0 ELSE CHOOSE i \in idx : \A j \in idx : j <= i

SanitizeOffsetUnchecked(off) == off

\* The offset kept for a requested offset.
SanitizeOffset(off) == IF off > ProtocolOffsetSizeLimit THEN 0 ELSE off

\* The part of the offset request that is converted: str[:idx+1].
OffsetText(str) == SubSeq(str, 1, LastDigitIndex(str))

\* The loop of parseProposalAnswer from iteration i (counted from 0) with str
\* still to parse.  err is "" when it returns nil.
RECURSIVE ParseAnswerLoop(_, _, _)
ParseAnswerLoop(i, str, props) ==
  IF Len(str) = 0 THEN [err |-> "", props |-> props]
  ELSE IF i >= Len(props)
  THEN [err |-> "Got answer for more proposals than expected", props |-> props]
  ELSE
    LET c    == str[1]
        rest == Drop(str, 1)
    IN  IF c \in {Asc["Y"], Asc["y"], Asc["+"]}
        THEN ParseAnswerLoop(i + 1, rest, [props EXCEPT ![i + 1].answer = Accept])
        ELSE IF c \in {Asc["N"], Asc["n"], Asc["R"], Asc["r"], Asc["-"]}
        THEN ParseAnswerLoop(i + 1, rest, [props EXCEPT ![i + 1].answer = Reject])
        ELSE IF c \in {Asc["L"], Asc["l"], Asc["="], Asc["H"], Asc["h"]}
        THEN ParseAnswerLoop(i + 1, rest, [props EXCEPT ![i + 1].answer = Defer])
        ELSE IF c \in {Asc["A"], Asc["a"], Asc["!"]}
        THEN IF LastDigitIndex(rest) = 0
             THEN [err |-> "Got offset request without offset index", props |-> props]
             ELSE ParseAnswerLoop(i + 1, Drop(rest, LastDigitIndex(rest)),
                    [props EXCEPT ![i + 1].answer = Accept,
                                  ![i + 1].offset = SanitizeOffset(Atoi(OffsetText(rest)))])
        ELSE [err |-> "Invalid character in proposal answer line", props |-> props]

\* parseProposalAnswer(str, props, l): the error and the proposals as updated.
parseProposalAnswer(str, props) ==
  ParseAnswerLoop(0, IF HasPrefix(str, Str(<<"F", "S", " ">>)) THEN Drop(str, 3) ELSE str, props)

(***************************************************************************)
(* Message catalogue used by the specifications                            *)
(***************************************************************************)

\* A compressed body of n bytes; the bytes differ with seed and position and
\* their sum passes 255.
Body(n, seed) == [i \in 1..n |-> (seed * 97 + i * 59) % 256]

\* Message identifiers (at most 12 characters).
Mid(k) == << Asc["M"] >> \o FmtDec(k)

\* The k-th message of a mailbox: codes, types and sizes vary with k.
CatalogProposal(k) ==
  NewProposal(IF k % 3 = 0 THEN Asc["D"] ELSE Asc["C"],
              IF k % 2 = 0 THEN Str(<<"P">>) ELSE Str(<<"E", "M">>),
              Mid(k),
              500 + 27 * k,
              Body(6 + (k % 3), k),
              Str(<<"T">>) \o FmtDec(k))

VARIABLES
  ansLine,    \* SpecAnswer: the answer line handed to parseProposalAnswer
  ansProps,   \* SpecAnswer: the proposals handed to it
  ansRes,     \* SpecAnswer: what it returned
  ansPc       \* SpecAnswer: "input" before the call, "done" after it

ansVars == << ansLine, ansProps, ansRes, ansPc >>

VARIABLES
  remoteNoMsgs   \* Session.remoteNoMsgs

sessVars == << remoteNoMsgs >>

VARIABLES
  iPc,             \* where handleInbound stands: "lines", "bodies", "done", "panic"
  iProposals,      \* handleInbound's proposals, with answers and received data
  iChecksum,       \* handleInbound's ourChecksum
  iWire,           \* every write handleInbound made to rw
  iIdx,            \* index of the proposal the fetch loop is at
  iErr,            \* the error handleInbound returned ("" for nil)
  iQuit,           \* handleInbound's result quitReceived
  hasHandler,      \* s.h != nil
  hAsked,          \* the proposals (by position) the handler was asked about
  hProcessed,      \* the MIDs handed to h.ProcessInbound, in order
  trafficReceived, \* trafficStats.Received
  rLines,          \* the proposal lines the remote sent in this block
  rPrompt,         \* the last F> line the remote sent (<< >> before it)
  rFrame,          \* the frames the remote sent: proposal index, data bytes, trailing byte
  pendingMessages, \* s.pendingMessages: the ;PM records, by MID
  rLast            \* the last line the remote sent (<< 0 >> before the first)

inVars == << iPc, iProposals, iChecksum, iWire, iIdx, iErr, iQuit, hasHandler, hAsked,
             hProcessed, trafficReceived, rLines, rPrompt, rFrame, pendingMessages, rLast >>

VARIABLES
  outbox,        \* what s.outbound() returns: the mailbox's outbound proposals, sorted
  oPc,           \* where handleOutbound / sendOutbound / writeCompressed stands
  oWire,         \* every write the session made to rw, in order (one entry per Write)
  oBlock,        \* sendOutbound's slice of proposals, with answers and offsets
  oIdx,          \* index in oBlock of the proposal the body loop is at
  oSent,         \* sendOutbound's map sent: a function from MIDs to "rejected"
  oErr,          \* the error handleOutbound returned ("" for nil)
  oQuitSent,     \* handleOutbound's result quitSent
  hSetSent,      \* calls h.SetSent(mid, rejected) made so far
  hDeferred,     \* calls h.SetDeferred(mid) made so far, in order
  trafficSent,   \* trafficStats.Sent, as the set of its MIDs
  rwFlusher,     \* rw implements transport.Flusher
  rwRobust,      \* rw implements transport.Robust
  rwFailing,     \* writes to rw and Flusher.Flush may fail during this call
  robustMode,    \* s.robustMode
  hSetRobust     \* calls of rw.SetRobust so far: the argument and the writes made before

VARIABLES
  frProp,     \* SpecFrame: the sender's proposal
  frWire,     \* SpecFrame: the bytes the peer's reader will see
  frRes,      \* SpecFrame: what readCompressed returned
  frPc        \* SpecFrame: "write", "read", "done"

frVars == << frProp, frWire, frRes, frPc >>

rwVars == << rwFlusher, rwRobust, rwFailing, robustMode >>

outVars == << outbox, oPc, oWire, oBlock, oIdx, oSent, oErr, oQuitSent,
              hSetSent, hDeferred, trafficSent, rwVars, hSetRobust >>

VARIABLES
  lzIn,      \* SpecLZ: the bytes given to the Writer
  lzCrc16,   \* SpecLZ: B2 mode
  lzPc,      \* SpecLZ: "write", "written", "reading", "eof", "closed", "failed"
  lzW,       \* the lzhuf.Writer
  lzFed,     \* how many bytes of lzIn were written
  lzOut,     \* the bytes that reached the Writer's underlying io.Writer
  lzD,       \* the lzhuf.Reader
  lzGot,     \* the bytes the Reads returned
  lzErr      \* the error of NewReader, of Read, or of Reader.Close ("" for nil)

lzVars == << lzIn, lzCrc16, lzPc, lzW, lzFed, lzOut, lzD, lzGot, lzErr >>

VARIABLES
  xSess,     \* the two sessions of an exchange, by side: the state of Session and
             \* of the mailbox behind its handler
  xPipe,     \* by side: the Write of the peer that this side has not read yet
  xRd,       \* by side: what the side's bufio.Reader holds unread
  xWq,       \* by side: the writes the side's running call still has to make
  xWire      \* by side: every write the side has made or queued, in order

xVars == << xSess, xPipe, xRd, xWq, xWire >>

VARIABLES
  stKind,         \* the transfer: "read" (readCompressed), "write" (writeCompressed)
  stPc,           \* "idle", "entry" (called), "running" (publisher started), "returned"
  stErr,          \* whether the transfer returned an error
  stLeft,         \* the blocks the remote may still send, the chunks still to write
  stLen,          \* readCompressed: the length of the block being read, 0 between blocks
  stI,            \* readCompressed: the index i of the next byte of the block
  stDropped,      \* the calls of updateStatus that took the default case of the select
  statusUpdater,  \* whether s.statusUpdater is not nil
  statusClosed,   \* whether the channel statusUpdate / statusDone is closed
  tickerOn,       \* writeCompressed: statusTicker was created and not stopped
  tickerC,        \* writeCompressed: statusTicker.C holds a tick
  pubPc,          \* the publisher: "none", "start", "wait" (at the receive or the
                  \* select), "got", "updating" (inside UpdateStatus), "exited"
  pubOk,          \* the ok of the receive; FALSE for the status with Done = true
  pubCount,       \* the calls of UpdateStatus
  pubDone,        \* the calls of UpdateStatus with Done = true
  pubLate         \* whether UpdateStatus was called after a call with Done = true

stVars == << stKind, stPc, stErr, stLeft, stLen, stI, stDropped, statusUpdater, statusClosed,
             tickerOn, tickerC, pubPc, pubOk, pubCount, pubDone, pubLate >>

VARIABLES
  lzTamper,  \* what was done to the Writer's output before it is read
  lzRes,     \* the last Read: the number of bytes and the error it returned
  lzReads,   \* the calls of Read
  lzFirst    \* the first error a Read returned ("" before)

lztVars == << lzTamper, lzRes, lzReads, lzFirst >>

VARIABLES
  srtProps,  \* the proposals handed to sortProposals, in insertion order
  srtOut,    \* the proposals after sortProposals
  srtPc      \* "idle", "unsorted", "sorted"

sortVars == << srtProps, srtOut, srtPc >>

VARIABLES
  dialersMu,  \* dialers.mu: the caller that holds the mutex, "" when unlocked
  dialersM,   \* dialers.m: by scheme the registered ContextDialer or NoDialer
  dialersNil, \* whether dialers.m is nil
  regPc,      \* by caller: "idle", "lock", "held", "accessed", "looked", "dialing"
  regOp,      \* by caller: the call it is in
  regGot,     \* by caller: what DialURLContext read from the map
  regSeen,    \* by caller: how many writes of the map preceded that read
  regRet,     \* by caller: what its last call returned or called
  regLog,     \* the writes of the map, in order
  regCalls    \* the calls made

regVars == << dialersMu, dialersM, dialersNil, regPc, regOp, regGot, regSeen, regRet, regLog,
              regCalls >>

VARIABLES
  tncClosed,  \* tnc.closed
  tncBusy,    \* tnc.busy
  tncARQBW,   \* the ARQ bandwidth the TNC is set to
  tncData,    \* tnc.data: the onClose of the connection dialed, << "nil" >> without one
  dlPc,       \* where DialBandwidth is
  dlBw,       \* its bw
  dlBusyFunc, \* whether tnc.busyFunc is set
  dlCurrent,  \* its currentBw
  dlDefers,   \* its defers: the bandwidths to set again
  dlErr,      \* the error it returned
  dlSets,     \* the SetARQBandwidth calls of this DialBandwidth
  dlCount     \* the DialBandwidth calls

dlVars == << tncClosed, tncBusy, tncARQBW, tncData, dlPc, dlBw, dlBusyFunc, dlCurrent, dlDefers,
             dlErr, dlSets, dlCount >>

VARIABLES
  chProp,          \* the proposal writeCompressed is called with
  chWrites,        \* what each Flush of writeCompressed put on the connection
  chErr,           \* what writeCompressed returned ("" is nil)
  chPc             \* "idle", "call", "done", "panic"

chVars == << chProp, chWrites, chErr, chPc >>

VARIABLES
  dxClosed,        \* demux.closed; d.in is closed in the same critical section
  dxIn,            \* the frames buffered in d.in (capacity 1)
  dxMu,            \* who holds d.mu ("" when free)
  dxPc,            \* per caller: "idle", "call" (before d.mu.Lock), "sending" (d.requests <- req)
  dxOp,            \* per caller: the operation called and its arguments
  dxRet,           \* per caller: what the last operation returned
  dxChans,         \* every framesReq made: its resp and done channels
  dxClients,       \* clients of run, as indices of dxChans
  dxRunPc,         \* run: "select", "deliver", "exited"
  dxF,             \* run: the frame taken from d.in
  dxI,             \* run: the index i of the loop over clients, from 1
  dxEnq,           \* how many frames Enqueue was given while the demux was open
  dxEOF,           \* Conn.Read returned io.EOF
  dxTear,          \* the teardown goroutine of newConn: "none", "wait", "cancel", "close", "done"
  dxRecvd          \* the kinds of the frames the read loop gave to Enqueue, in order

dxVars == << dxClosed, dxIn, dxMu, dxPc, dxOp, dxRet, dxChans, dxClients, dxRunPc, dxF, dxI,
             dxEnq, dxEOF, dxTear, dxRecvd >>

VARIABLES
  lnOffered,       \* how many connect frames the demux of the port has matched against the request
  lnConnects,      \* the frames buffered in connects (capacity 1)
  lnConnectsClosed, \* run of the port demux has closed connects
  lnPortClosed,    \* the demux of the port is closed
  lnDone,          \* ln.done is closed
  lnHPc,           \* the goroutine of handleInbound: "range", "select", "exited", "panic"
  lnConns,         \* per connection made: times returned by Accept, times closed
  lnAPc,           \* per Accept caller: "idle", "waiting"
  lnARet,          \* per Accept caller: what its last call returned
  lnAfter          \* per Accept caller: its call began after Listener.Close

lnVars == << lnOffered, lnConnects, lnConnectsClosed, lnPortClosed, lnDone, lnHPc, lnConns,
             lnAPc, lnARet, lnAfter >>

VARIABLES
  flPc,            \* the writing goroutine: "write", "book" (in Write after Conn.Write), "wrote", "flush"
  flSent,          \* bytes Conn.Write has taken in all
  flNWritten,      \* conn.nWritten
  flLock,          \* conn.flushLock is locked
  flRecv,          \* bytes the TNC has taken off the data connection
  flConf,          \* bytes the TNC has sent and the peer confirmed
  flReports,       \* buffer reports of the TNC the control loop has not handled yet
  flBuffers,       \* conn.buffers: the last report given to updateBuffers
  flEarly          \* Flush has returned with written bytes unconfirmed

flVars == << flPc, flSent, flNWritten, flLock, flRecv, flConf, flReports, flBuffers, flEarly >>

moreVars == << stVars, lztVars, sortVars, regVars, dlVars, chVars, dxVars, lnVars, flVars >>

vars == << ansVars, sessVars, outVars, frVars, inVars, lzVars, xVars, moreVars >>

StIdle ==
  /\ stKind = "none"
  /\ stPc = "idle"
  /\ stErr = FALSE
  /\ stLeft = 0
  /\ stLen = 0
  /\ stI = 0
  /\ stDropped = 0
  /\ statusUpdater = FALSE
  /\ statusClosed = FALSE
  /\ tickerOn = FALSE
  /\ tickerC = FALSE
  /\ pubPc = "none"
  /\ pubOk = FALSE
  /\ pubCount = 0
  /\ pubDone = 0
  /\ pubLate = FALSE

LztIdle ==
  /\ lzTamper = [kind |-> "none", at |-> 0]
  /\ lzRes = [n |-> 0, err |-> "-"]
  /\ lzReads = 0
  /\ lzFirst = ""

SortIdle ==
  /\ srtProps = << >>
  /\ srtOut = << >>
  /\ srtPc = "idle"

RegIdle ==
  /\ dialersMu = ""
  /\ dialersM = << >>
  /\ dialersNil = TRUE
  /\ regPc = << >>
  /\ regOp = << >>
  /\ regGot = << >>
  /\ regSeen = << >>
  /\ regRet = << >>
  /\ regLog = << >>
  /\ regCalls = 0

DlIdle ==
  /\ tncClosed = FALSE
  /\ tncBusy = FALSE
  /\ tncARQBW = ""
  /\ tncData = << >>
  /\ dlPc = ""
  /\ dlBw = ""
  /\ dlBusyFunc = FALSE
  /\ dlCurrent = ""
  /\ dlDefers = << >>
  /\ dlErr = ""
  /\ dlSets = << >>
  /\ dlCount = 0

ChIdle ==
  /\ chProp = NewProposal(0, << >>, << >>, 0, << >>, << >>)
  /\ chWrites = << >>
  /\ chErr = ""
  /\ chPc = "idle"

DxIdle ==
  /\ dxClosed = FALSE
  /\ dxIn = << >>
  /\ dxMu = ""
  /\ dxPc = << >>
  /\ dxOp = << >>
  /\ dxRet = << >>
  /\ dxChans = << >>
  /\ dxClients = << >>
  /\ dxRunPc = "idle"
  /\ dxF = 0
  /\ dxI = 0
  /\ dxEnq = 0
  /\ dxEOF = FALSE
  /\ dxTear = "none"
  /\ dxRecvd = << >>

LnIdle ==
  /\ lnOffered = 0
  /\ lnConnects = << >>
  /\ lnConnectsClosed = FALSE
  /\ lnPortClosed = FALSE
  /\ lnDone = FALSE
  /\ lnHPc = "idle"
  /\ lnConns = << >>
  /\ lnAPc = << >>
  /\ lnARet = << >>
  /\ lnAfter = << >>

FlIdle ==
  /\ flPc = "idle"
  /\ flSent = 0
  /\ flNWritten = 0
  /\ flLock = FALSE
  /\ flRecv = 0
  /\ flConf = 0
  /\ flReports = << >>
  /\ flBuffers = << >>
  /\ flEarly = FALSE

MoreIdle == StIdle /\ LztIdle /\ SortIdle /\ RegIdle /\ DlIdle /\ ChIdle /\ DxIdle /\ LnIdle /\ FlIdle

XIdle ==
  /\ xSess = << >>
  /\ xPipe = << >>
  /\ xRd = << >>
  /\ xWq = << >>
  /\ xWire = << >>

LzIdle ==
  /\ lzIn = << >>
  /\ lzCrc16 = FALSE
  /\ lzPc = "idle"
  /\ lzW = << >>
  /\ lzFed = 0
  /\ lzOut = << >>
  /\ lzD = << >>
  /\ lzGot = << >>
  /\ lzErr = ""

(***************************************************************************)
(* SpecAnswer: parseProposalAnswer applied to bounded answer lines         *)
(***************************************************************************)

MaxTokens   == 2     \* answer tokens per line
MaxAnsProps == 2     \* proposals the line is parsed against

\* One-character answers, two characters that are no answer, and offset
\* requests with no, small, limit and over-limit offsets.
AnswerTokens ==
  { Str(<< c >>) : c \in {"Y", "y", "+", "N", "n", "R", "r", "-",
                          "L", "l", "=", "H", "h", "X", "5"} }
  \cup { Str(<< c >>) \o d :
          c \in {"A", "a", "!"},
          d \in { << >>, Str(<<"7">>), Str(<<"9", "9", "9", "9", "9", "9">>),
                  Str(<<"1", "0", "0", "0", "0", "0", "0">>) } }

AnswerLines ==
  UNION { { Concat(ts) : ts \in [1..n -> AnswerTokens] } : n \in 0..MaxTokens }

AnsNone == [err |-> "-", props |-> << >>]

AnsIdle ==
  /\ ansLine = << >>
  /\ ansProps = << >>
  /\ ansRes = AnsNone
  /\ ansPc = "idle"

InIdle ==
  /\ iPc = "idle"
  /\ iProposals = << >>
  /\ iChecksum = 0
  /\ iWire = << >>
  /\ iIdx = 0
  /\ iErr = ""
  /\ iQuit = FALSE
  /\ hasHandler = FALSE
  /\ hAsked = << >>
  /\ hProcessed = << >>
  /\ trafficReceived = << >>
  /\ rLines = << >>
  /\ rPrompt = << >>
  /\ rFrame = << >>
  /\ pendingMessages = << >>
  /\ rLast = << 0 >>

OutIdle ==
  /\ outbox = << >>
  /\ oPc = "idle"
  /\ oWire = << >>
  /\ oBlock = << >>
  /\ oIdx = 0
  /\ oSent = << >>
  /\ oErr = ""
  /\ oQuitSent = FALSE
  /\ hSetSent = {}
  /\ hDeferred = << >>
  /\ trafficSent = {}
  /\ rwFlusher = FALSE
  /\ rwRobust = FALSE
  /\ rwFailing = FALSE
  /\ robustMode = "RobustAuto"
  /\ hSetRobust = << >>

FrNone == [err |-> "-", data |-> << >>, title |-> << >>, used |-> 0]

FrIdle ==
  /\ frProp = << >>
  /\ frWire = << >>
  /\ frRes = FrNone
  /\ frPc = "idle"

AnsInit ==
  /\ MoreIdle
  /\ OutIdle
  /\ FrIdle
  /\ InIdle
  /\ LzIdle
  /\ XIdle
  /\ remoteNoMsgs = FALSE
  /\ ansLine \in AnswerLines
  /\ \E n \in 0..MaxAnsProps : ansProps = [i \in 1..n |-> CatalogProposal(i)]
  /\ ansRes = AnsNone
  /\ ansPc = "input"

\* The call: the line arrives with its "FS " prefix, as sendOutbound passes it.
AnsParse ==
  /\ ansPc = "input"
  /\ ansRes' = parseProposalAnswer(Str(<<"F", "S", " ">>) \o ansLine, ansProps)
  /\ ansPc' = "done"
  /\ UNCHANGED << ansLine, ansProps >>
  /\ UNCHANGED << sessVars, outVars, frVars, inVars, lzVars, xVars, moreVars >>

AnsNext == AnsParse

SpecAnswer == AnsInit /\ [][AnsNext]_vars

(***************************************************************************)
(* Properties of parseProposalAnswer                                       *)
(***************************************************************************)

AcceptChars == {Asc["Y"], Asc["y"], Asc["+"]}
RejectChars == {Asc["N"], Asc["n"], Asc["R"], Asc["r"], Asc["-"]}
DeferChars  == {Asc["L"], Asc["l"], Asc["="], Asc["H"], Asc["h"]}
OffsetChars == {Asc["A"], Asc["a"], Asc["!"]}

\* The number of leading digits of str.
RECURSIVE DigitRun(_)
DigitRun(str) ==
  IF Len(str) > 0 /\ IsDigit(str[1]) THEN 1 + DigitRun(Drop(str, 1)) ELSE 0

\* The value of a run of decimal digits.
RECURSIVE DigitsValue(_)
DigitsValue(ds) ==
  IF Len(ds) = 0 THEN 0 ELSE 10 * DigitsValue(SubSeq(ds, 1, Len(ds) - 1)) + (ds[Len(ds)] - 48)

\* The answers an answer line stands for, read one answer per proposal: a
\* one-character answer, or an offset character and the digits that follow it.
\* ok is FALSE for a character that is no answer, an offset character without
\* digits, and more answers than proposals.
RECURSIVE AnswersOfLine(_, _)
AnswersOfLine(str, n) ==
  IF Len(str) = 0 THEN [ok |-> TRUE, answers |-> << >>]
  ELSE IF n = 0 THEN [ok |-> FALSE, answers |-> << >>]
  ELSE
    LET c == str[1]
        k == IF c \in OffsetChars THEN DigitRun(Drop(str, 1)) ELSE 0
        a == IF c \in AcceptChars \cup OffsetChars THEN Accept
             ELSE IF c \in RejectChars THEN Reject ELSE Defer
        valid == \/ c \in AcceptChars \cup RejectChars \cup DeferChars
                 \/ c \in OffsetChars /\ k > 0
        tail == AnswersOfLine(Drop(str, 1 + k), n - 1)
    IN  IF ~valid THEN [ok |-> FALSE, answers |-> << >>]
        ELSE [ok |-> tail.ok,
              answers |-> << [answer |-> a,
                              isOffset |-> c \in OffsetChars,
                              offset |-> DigitsValue(SubSeq(str, 2, 1 + k))] >>
                          \o tail.answers]

\* C6: parseProposalAnswer maps Y y + to Accept, N n R r - to Reject,
\* L l = H h to Defer and A a ! followed by decimal digits to Accept with that
\* offset, for the proposal at the answer's position; any other character and
\* an answer line with more answers than proposals make it return an error.
C6_AnswerMapping ==
  ansPc = "done" =>
    LET want == AnswersOfLine(ansLine, Len(ansProps))
    IN  /\ (ansRes.err # "") <=> ~want.ok
        /\ want.ok =>
              \A i \in 1..Len(want.answers) :
                /\ ansRes.props[i].answer = want.answers[i].answer
                /\ (want.answers[i].isOffset
                     /\ want.answers[i].offset <= ProtocolOffsetSizeLimit)
                      => ansRes.props[i].offset = want.answers[i].offset

\* C32: for an answer line with one answer token for each proposal of the
\* block, offset tokens for several proposals included, parseProposalAnswer
\* returns no error and gives each proposal the answer of the token at its
\* position, with the offset of the digits that directly follow the token
\* (0 when over the limit) and the offset untouched for a token of one
\* character.
C32_TokenPerProposal ==
  LET want == AnswersOfLine(ansLine, Len(ansProps))
  IN  (ansPc = "done" /\ want.ok /\ Len(want.answers) = Len(ansProps)) =>
        /\ ansRes.err = ""
        /\ \A i \in 1..Len(ansProps) :
              /\ ansRes.props[i].answer = want.answers[i].answer
              /\ ansRes.props[i].offset =
                    IF ~want.answers[i].isOffset THEN ansProps[i].offset
                    ELSE IF want.answers[i].offset > ProtocolOffsetSizeLimit THEN 0
                    ELSE want.answers[i].offset

\* The line ends in an offset request for proposal k over the protocol limit,
\* after k-1 one-character answers.
OverLimitRequest(line, k) ==
  /\ Len(line) > k
  /\ \A i \in 1..(k - 1) : line[i] \in AcceptChars \cup RejectChars \cup DeferChars
  /\ line[k] \in OffsetChars
  /\ DigitRun(Drop(line, k)) = Len(line) - k
  /\ DigitsValue(Drop(line, k)) > ProtocolOffsetSizeLimit

\* C7: after parseProposalAnswer returned without error every proposal's
\* offset is at most 999999; a request over 999999 returns no error and leaves
\* the proposal answered Accept at offset 0.
C7_OffsetSanitized ==
  ansPc = "done" =>
    /\ ansRes.err = "" =>
          \A i \in 1..Len(ansRes.props) : ansRes.props[i].offset <= ProtocolOffsetSizeLimit
    /\ \A k \in 1..Len(ansProps) :
          OverLimitRequest(ansLine, k) =>
            /\ ansRes.err = ""
            /\ ansRes.props[k].answer = Accept
            /\ ansRes.props[k].offset = 0

C7_Witness ==
  /\ ansPc = "done"
  /\ ansRes.err = ""
  /\ Len(ansProps) = 2
  /\ OverLimitRequest(ansLine, 2)
  /\ ansRes.props[2].offset = 0
  /\ ansRes.props[2].answer = Accept

(***************************************************************************)
(* sendOutbound and writeCompressed                                        *)
(***************************************************************************)

SOH == 1
STX == 2
EOT == 4
NUL == 0

\* fmt.Sprintf("F%c %s %s %d %d %d", code, msgType, mid, size, compressedSize, 0)
ProposalLine(prop) ==
  << Asc["F"], prop.code, 32 >> \o prop.msgType \o << 32 >> \o prop.mid \o << 32 >>
    \o FmtDec(prop.size) \o << 32 >> \o FmtDec(prop.compressedSize) \o << 32 >> \o FmtDec(0)

LineSumNoCR(sp) == SumBytes(sp)

\* What one proposal line adds to the checksum: its characters and the CR.
LineSum(sp) == SumBytes(sp) + CR

\* The running sum over the lines of a block.
RECURSIVE BlockSum(_)
BlockSum(block) ==
  IF Len(block) = 0 THEN 0
  ELSE BlockSum(SubSeq(block, 1, Len(block) - 1)) + LineSum(ProposalLine(block[Len(block)]))

TruncateBlockNone(outbound) == outbound

\* outbound[0:MaxBlockSize] when the queue is longer.
TruncateBlock(outbound) ==
  IF Len(outbound) > MaxBlockSize THEN SubSeq(outbound, 1, MaxBlockSize) ELSE outbound

\* The writes of sendOutbound before it waits for the answer: one per
\* proposal line, then the F> line.
BlockWrites(block) ==
  [i \in 1..Len(block) |-> ProposalLine(block[i]) \o << CR >>]
    \o << Str(<<"F", ">", " ">>) \o FmtHex02(NegLow8(BlockSum(block))) \o << CR >> >>

\* mime.QEncoding.Encode("utf-8", title): a title of printable ASCII other
\* than the characters of an encoded word is returned as it is.
QEncode(title) == title

\* The header write of writeCompressed.
FrameHeader(prop) ==
  LET title  == QEncode(prop.title)
      offset == FmtDec(prop.offset)
      length == Len(title) + Len(offset) + 2
  IN  << SOH, length % 256 >> \o title \o << NUL >> \o offset \o << NUL >>

FrameChunksWhole(buf) ==
  IF Len(buf) = 0 THEN << >> ELSE << << STX, Len(buf) % 256 >> \o buf >>

\* The chunk writes of writeCompressed for the bytes buf still to send.
RECURSIVE FrameChunks(_)
FrameChunks(buf) ==
  IF Len(buf) = 0 THEN << >>
  ELSE LET msgLen == Min(MaxMsgLength, Len(buf))
       IN  << << STX, msgLen >> \o SubSeq(buf, 1, msgLen) >> \o FrameChunks(Drop(buf, msgLen))

FrameChecksumRaw(buf) == SumBytes(buf) % 256

\* checksum = -checksum & 0xff over the bytes sent
FrameChecksum(buf) == NegLow8(SumBytes(buf))

\* Every write of a writeCompressed that runs to its end.
FrameWrites(prop) ==
  LET buf == Drop(prop.compressedData, prop.offset)
  IN  << FrameHeader(prop) >> \o FrameChunks(buf) \o << << EOT, FrameChecksum(buf) >> >>

\* writeCompressed on a connection whose failAt-th write fails (0: none fails).
\* Every write of FrameWrites is a Flush of the bufio.Writer, which keeps the
\* first error and returns it from every later Write and Flush.  The chunk
\* loop returns that error; after the loop the error of the last Flush is
\* replaced by the result flushErr of rw.Flush() when rw is a Flusher.
writeCompressedOn(prop, failAt, flusher, flushErr) ==
  LET Result(ws) ==
        [writes |-> IF failAt = 0 THEN ws ELSE SubSeq(ws, 1, failAt - 1),
         err    |-> IF failAt # 0 /\ failAt < Len(ws) /\ Len(ws) > 2 THEN "write failed"
                    ELSE IF flusher THEN flushErr
                    ELSE IF failAt # 0 THEN "write failed"
                    ELSE ""]
  IN  Result(FrameWrites(prop))

RobustToggledAlways(robust, mode) == robust

\* Whether sendOutbound switches robust mode off for the bodies of a block.
RobustToggled(robust, mode) == robust /\ mode = "RobustAuto"

\* The calls of SetRobust after one more call with argument r, made after the
\* writes wire; none when the connection is not toggled.
SetRobust(calls, r, wire) ==
  IF RobustToggled(rwRobust, robustMode)
  THEN Append(calls, [r |-> r, at |-> Len(wire)])
  ELSE calls

(***************************************************************************)
(* SpecOut: one call of handleOutbound against a remote that answers       *)
(***************************************************************************)

MaxQueue == 6      \* longest outbound queue
MaxShift == 1      \* the queue starts at catalogue message 1..1+MaxShift

\* What the remote may answer for one proposal.
OutAnswerTokens ==
  { Str(<<"+">>), Str(<<"-">>), Str(<<"=">>), Str(<<"!", "3">>), Str(<<"!", "9">>) }

\* The lines the remote may send while sendOutbound waits for the answer to a
\* block of m proposals: an answer for every proposal, an answer line that is
\* one answer short, a comment, and a line that is no answer.
OutRemoteLines(m) ==
  { Str(<<"F", "S", " ">>) \o Concat(ts) : ts \in [1..m -> OutAnswerTokens] }
  \cup { Str(<<"F", "S", " ">>) \o [i \in 1..(m - 1) |-> Asc["+"]],
         Str(<<";", "c">>), Str(<<"F", "F">>) }

OutInit ==
  /\ MoreIdle
  /\ AnsIdle
  /\ FrIdle
  /\ InIdle
  /\ LzIdle
  /\ XIdle
  /\ \E n \in 0..MaxQueue, sh \in 0..MaxShift :
        outbox = [i \in 1..n |-> CatalogProposal(i + sh)]
  /\ remoteNoMsgs \in BOOLEAN
  /\ oPc = "start"
  /\ oWire = << >>
  /\ oBlock = << >>
  /\ oIdx = 0
  /\ oSent = << >>
  /\ oErr = ""
  /\ oQuitSent = FALSE
  /\ hSetSent = {}
  /\ hDeferred = << >>
  /\ trafficSent = {}
  /\ rwFlusher = FALSE
  /\ rwRobust = FALSE
  /\ rwFailing = FALSE
  /\ robustMode = "RobustAuto"
  /\ hSetRobust = << >>

\* The MIDs of sent; sent is kept as a sequence of <<mid, rejected>> in which
\* a later entry for a MID replaces an earlier one.
SentMids(sent) == { sent[i][1] : i \in 1..Len(sent) }
SentRejected(sent, mid) ==
  LET last == CHOOSE i \in 1..Len(sent) :
                sent[i][1] = mid /\ \A j \in 1..Len(sent) : sent[j][1] = mid => j <= i
  IN  sent[last][2]

\* handleOutbound up to the point where sendOutbound waits for the answer;
\* with nothing to send, up to the turnover.
OutSendProposals ==
  /\ oPc = "start"
  /\ Len(outbox) > 0
  /\ oBlock' = TruncateBlock(outbox)
  /\ oWire' = oWire \o BlockWrites(TruncateBlock(outbox))
  /\ oPc' = "answer"
  /\ UNCHANGED << outbox, remoteNoMsgs, oIdx, oSent, oErr, oQuitSent, hSetSent, hDeferred,
                  trafficSent >>
  /\ UNCHANGED << rwVars, hSetRobust >>
  /\ UNCHANGED << ansVars, frVars, inVars, lzVars, xVars, moreVars >>

OutNothingToSend ==
  /\ oPc = "start"
  /\ Len(outbox) = 0
  /\ oPc' = "turnover"
  /\ UNCHANGED << outbox, remoteNoMsgs, oWire, oBlock, oIdx, oSent, oErr, oQuitSent,
                  hSetSent, hDeferred, trafficSent >>
  /\ UNCHANGED << rwVars, hSetRobust >>
  /\ UNCHANGED << ansVars, frVars, inVars, lzVars, xVars, moreVars >>

\* A line arrives while sendOutbound waits for the proposal answer.
OutAnswerLine ==
  /\ oPc = "answer"
  /\ \E line \in OutRemoteLines(Len(oBlock)) :
        IF HasPrefix(line, Str(<<"F", "S", " ">>))
        THEN LET res == parseProposalAnswer(line, oBlock)
             IN  IF res.err # ""
                 THEN /\ oErr' = "Unable to parse proposal answer"
                      /\ oPc' = "done"
                      /\ UNCHANGED << oBlock, oIdx, hSetRobust >>
                 ELSE /\ oBlock' = res.props
                      /\ oIdx' = 1
                      /\ oPc' = "bodies"
                      /\ hSetRobust' = SetRobust(hSetRobust, FALSE, oWire)
                      /\ UNCHANGED oErr
        ELSE IF HasPrefix(line, Str(<<";">>))
        THEN UNCHANGED << oPc, oBlock, oIdx, oErr, hSetRobust >>
        ELSE /\ oErr' = "Expected proposal answer from remote"
             /\ oPc' = "done"
             /\ UNCHANGED << oBlock, oIdx, hSetRobust >>
  /\ UNCHANGED << outbox, remoteNoMsgs, oWire, oSent, oQuitSent, hSetSent, hDeferred,
                  trafficSent >>
  /\ UNCHANGED rwVars
  /\ UNCHANGED << ansVars, frVars, inVars, lzVars, xVars, moreVars >>

\* The connection fails while sendOutbound waits for the answer.
OutAnswerFails ==
  /\ oPc = "answer"
  /\ oErr' = "EOF"
  /\ oPc' = "done"
  /\ UNCHANGED << outbox, remoteNoMsgs, oWire, oBlock, oIdx, oSent, oQuitSent, hSetSent,
                  hDeferred, trafficSent >>
  /\ UNCHANGED << rwVars, hSetRobust >>
  /\ UNCHANGED << ansVars, frVars, inVars, lzVars, xVars, moreVars >>

\* One round of the loop over the answered proposals.
OutBody ==
  /\ oPc = "bodies"
  /\ oIdx <= Len(oBlock)
  /\ LET prop == oBlock[oIdx]
     IN  CASE prop.answer = Defer ->
                /\ hDeferred' = Append(hDeferred, prop.mid)
                /\ oIdx' = oIdx + 1
                /\ UNCHANGED << oPc, oWire, oSent, oErr, hSetRobust >>
           [] prop.answer = Reject ->
                /\ oSent' = Append(oSent, << prop.mid, TRUE >>)
                /\ oIdx' = oIdx + 1
                /\ UNCHANGED << oPc, oWire, oErr, hDeferred, hSetRobust >>
           [] prop.answer = Accept ->
                IF prop.compressedSize < 6
                THEN \* the header is on the wire when the size is checked
                     /\ oWire' = Append(oWire, FrameHeader(prop))
                     /\ oErr' = "Invalid compressed data"
                     /\ oPc' = "done"
                     /\ hSetRobust' = SetRobust(hSetRobust, TRUE, oWire')
                     /\ UNCHANGED << oIdx, oSent, hDeferred >>
                ELSE IF prop.offset < 0 \/ prop.offset > Len(prop.compressedData)
                THEN \* p.compressedData[p.offset:] is out of range: the program
                     \* panics, and the deferred call runs
                     /\ oWire' = Append(oWire, FrameHeader(prop))
                     /\ oPc' = "panic"
                     /\ hSetRobust' = SetRobust(hSetRobust, TRUE, oWire')
                     /\ UNCHANGED << oIdx, oSent, oErr, hDeferred >>
                ELSE \E failAt \in IF rwFailing THEN 0..Len(FrameWrites(prop)) ELSE {0},
                        flushErr \in IF rwFailing THEN {"", "flush failed"} ELSE {""} :
                       \E res \in {writeCompressedOn(prop, failAt, rwFlusher, flushErr)} :
                          /\ oWire' = oWire \o res.writes
                          /\ IF res.err # ""
                             THEN /\ oErr' = res.err
                                  /\ oPc' = "done"
                                  /\ hSetRobust' = SetRobust(hSetRobust, TRUE, oWire')
                                  /\ UNCHANGED << oIdx, oSent >>
                             ELSE /\ oSent' = Append(oSent, << prop.mid, FALSE >>)
                                  /\ oIdx' = oIdx + 1
                                  /\ UNCHANGED << oPc, oErr, hSetRobust >>
                          /\ UNCHANGED hDeferred
           [] OTHER ->
                /\ oIdx' = oIdx + 1
                /\ UNCHANGED << oPc, oWire, oSent, oErr, hDeferred, hSetRobust >>
  /\ UNCHANGED << outbox, remoteNoMsgs, oBlock, oQuitSent, hSetSent, trafficSent >>
  /\ UNCHANGED rwVars
  /\ UNCHANGED << ansVars, frVars, inVars, lzVars, xVars, moreVars >>

\* sendOutbound returned nil: handleOutbound reports the rejected MIDs and
\* drops them from sent.
OutReportRejected ==
  /\ oPc = "bodies"
  /\ oIdx > Len(oBlock)
  /\ hSetSent' = hSetSent \cup
        { << mid, TRUE >> : mid \in { m \in SentMids(oSent) : SentRejected(oSent, m) } }
  /\ oSent' = SelectSeq(oSent, LAMBDA e : ~SentRejected(oSent, e[1]))
  /\ oPc' = "turnover"
  /\ hSetRobust' = SetRobust(hSetRobust, TRUE, oWire)
  /\ UNCHANGED << outbox, remoteNoMsgs, oWire, oBlock, oIdx, oErr, oQuitSent, hDeferred,
                  trafficSent >>
  /\ UNCHANGED rwVars
  /\ UNCHANGED << ansVars, frVars, inVars, lzVars, xVars, moreVars >>

\* The turnover switch of handleOutbound.
OutTurnover ==
  /\ oPc = "turnover"
  /\ IF Len(outbox) > 0
     THEN /\ oPc' = "peek"
          /\ UNCHANGED << oWire, oQuitSent >>
     ELSE IF remoteNoMsgs /\ Len(oSent) = 0
     THEN /\ oWire' = Append(oWire, Str(<<"F", "Q">>) \o << CR >>)
          /\ oQuitSent' = TRUE
          /\ oPc' = "done"
     ELSE /\ oWire' = Append(oWire, Str(<<"F", "F">>) \o << CR >>)
          /\ oPc' = "peek"
          /\ UNCHANGED oQuitSent
  /\ UNCHANGED << outbox, remoteNoMsgs, oBlock, oIdx, oSent, oErr, hSetSent, hDeferred,
                  trafficSent >>
  /\ UNCHANGED << rwVars, hSetRobust >>
  /\ UNCHANGED << ansVars, frVars, inVars, lzVars, xVars, moreVars >>

\* The first byte from the remote after the turnover.
OutPeek ==
  /\ oPc = "peek"
  /\ \E first \in {Asc["F"], Asc[";"], Asc["*"]} :
        IF first \in {Asc["F"], Asc[";"]}
        THEN /\ hSetSent' = hSetSent \cup { << mid, FALSE >> : mid \in SentMids(oSent) }
             /\ trafficSent' = trafficSent \cup SentMids(oSent)
             /\ UNCHANGED oErr
        ELSE /\ oErr' = "Unexpected response"
             /\ UNCHANGED << hSetSent, trafficSent >>
  /\ oPc' = "done"
  /\ UNCHANGED << outbox, remoteNoMsgs, oWire, oBlock, oIdx, oSent, oQuitSent, hDeferred >>
  /\ UNCHANGED << rwVars, hSetRobust >>
  /\ UNCHANGED << ansVars, frVars, inVars, lzVars, xVars, moreVars >>

\* The connection fails while handleOutbound peeks for the first byte.
OutPeekFails ==
  /\ oPc = "peek"
  /\ oErr' = "EOF"
  /\ oPc' = "done"
  /\ UNCHANGED << outbox, remoteNoMsgs, oWire, oBlock, oIdx, oSent, oQuitSent, hSetSent,
                  hDeferred, trafficSent >>
  /\ UNCHANGED << rwVars, hSetRobust >>
  /\ UNCHANGED << ansVars, frVars, inVars, lzVars, xVars, moreVars >>

OutNext ==
  \/ OutSendProposals
  \/ OutNothingToSend
  \/ OutAnswerLine
  \/ OutAnswerFails
  \/ OutBody
  \/ OutReportRejected
  \/ OutTurnover
  \/ OutPeek
  \/ OutPeekFails

SpecOut == OutInit /\ [][OutNext]_vars

(***************************************************************************)
(* SpecConn: handleOutbound on connections with and without the optional   *)
(* interfaces, whose writes may fail                                       *)
(***************************************************************************)

MaxConnQueue == 2     \* longest outbound queue of SpecConn

RobustModes == {"RobustAuto", "RobustForced", "RobustDisabled"}

ConnInit ==
  /\ MoreIdle
  /\ AnsIdle
  /\ FrIdle
  /\ InIdle
  /\ LzIdle
  /\ XIdle
  /\ \E n \in 0..MaxConnQueue : outbox = [i \in 1..n |-> CatalogProposal(i)]
  /\ remoteNoMsgs \in BOOLEAN
  /\ oPc = "start"
  /\ oWire = << >>
  /\ oBlock = << >>
  /\ oIdx = 0
  /\ oSent = << >>
  /\ oErr = ""
  /\ oQuitSent = FALSE
  /\ hSetSent = {}
  /\ hDeferred = << >>
  /\ trafficSent = {}
  /\ rwFlusher \in BOOLEAN
  /\ rwRobust \in BOOLEAN
  /\ rwFailing \in BOOLEAN
  /\ robustMode \in RobustModes
  /\ hSetRobust = << >>

SpecConn == ConnInit /\ [][OutNext]_vars

\* The writes ws were made to rw, one after the other.
InWire(ws) ==
  \E k \in 0..(Len(oWire) - Len(ws)) : SubSeq(oWire, k + 1, k + Len(ws)) = ws

\* The handler was told that mid was sent, or trafficStats.Sent holds it.
MarkedSent(mid) == << mid, FALSE >> \in hSetSent \/ mid \in trafficSent

\* C19: an outbound MID answered Accept is reported to the handler as sent
\* and recorded in trafficStats.Sent only after its body was written
\* completely and the first byte from the remote after the block is F or ;
\* when a body write fails, the connection fails, or the remote answers with
\* another first byte, handleOutbound returns an error and the MID is marked
\* neither sent nor rejected.
C19_SentOnlyAfterBody ==
  /\ \A mid \in SentMids(oSent) \cup trafficSent \cup { e[1] : e \in hSetSent } :
       MarkedSent(mid) =>
         /\ oPc = "done"
         /\ oErr = ""
         /\ \E i \in 1..Len(oBlock) :
              /\ oBlock[i].mid = mid
              /\ oBlock[i].answer = Accept
              /\ InWire(FrameWrites(oBlock[i]))
  /\ \A i \in 1..Len(oBlock) :
       (oBlock[i].answer = Accept /\ oPc = "done") =>
         /\ ~InWire(FrameWrites(oBlock[i])) => oErr # ""
         /\ oErr # "" =>
              /\ ~MarkedSent(oBlock[i].mid)
              /\ << oBlock[i].mid, TRUE >> \notin hSetSent

\* C19 on connections that are no Flusher.
C19_WithoutFlusher == ~rwFlusher => C19_SentOnlyAfterBody

\* sendOutbound takes the Accept at oIdx as transferred: writeCompressed
\* returned nil for it.
BodyTransferred ==
  /\ oPc = "bodies"
  /\ oIdx <= Len(oBlock)
  /\ oBlock[oIdx].answer = Accept
  /\ oIdx' = oIdx + 1

\* C31: writeCompressed returns nil only when every write of the transfer,
\* the last one of EOT and checksum included, went to the connection; a
\* failed write gives an error, on a connection that is a Flusher too.
C31_WriteErrorReturned ==
  [][ BodyTransferred => oWire' = oWire \o FrameWrites(oBlock[oIdx]) ]_vars

\* C20: on a connection that implements Robust, with the policy RobustAuto,
\* sendOutbound calls SetRobust(false) after the answer was parsed and before
\* the first byte of a body is written, and SetRobust(true) before it
\* returns, on every path from there, a failed body write included; with any
\* other policy, or a connection that does not implement Robust, SetRobust is
\* never called.
C20_RobustToggle ==
  LET auto     == rwRobust /\ robustMode = "RobustAuto"
      blockLen == Len(oBlock) + 1
      off      == [r |-> FALSE, at |-> blockLen]
  IN  /\ ~auto => hSetRobust = << >>
      /\ auto =>
           /\ hSetRobust # << >> <=> oIdx >= 1
           /\ oPc = "bodies" => hSetRobust = << off >>
           /\ oPc \in {"turnover", "peek", "done", "panic"} /\ oIdx >= 1 =>
                /\ Len(hSetRobust) = 2
                /\ hSetRobust[1] = off
                /\ hSetRobust[2].r = TRUE
                /\ hSetRobust[2].at >= blockLen
                /\ hSetRobust[2].at <= Len(oWire)
           /\ oIdx >= 1 => Len(oWire) >= blockLen /\ SubSeq(oWire, 1, blockLen) = BlockWrites(oBlock)

\* A body write failed after robust mode was switched off, and it was
\* switched on again before handleOutbound returned the error.
C20_Witness ==
  /\ rwRobust
  /\ robustMode = "RobustAuto"
  /\ oPc = "done"
  /\ oErr = "write failed"
  /\ Len(hSetRobust) = 2
  /\ hSetRobust[2].r
  /\ hSetRobust[2].at > hSetRobust[1].at


(***************************************************************************)
(* readCompressed                                                          *)
(***************************************************************************)

\* The position of the first byte b of rd at or after position from; 0 when
\* there is none.
IndexFrom(rd, from, b) ==
  LET idx == {i \in from..Len(rd) : rd[i] = b}
  IN  IF idx = {} THEN 0 ELSE CHOOSE i \in idx : \A j \in idx : i <= j

\* s.rd.ReadByte() with the error dropped: at the end of the input the byte is 0.
ByteAt(rd, i) == IF i <= Len(rd) THEN rd[i] ELSE 0

ChunkLengthAsIs(c) == c

\* The data length a chunk's length byte stands for.
ChunkLength(c) == IF c = 0 THEN 256 ELSE c

AddToChecksumUnreduced(sum, c) == sum + c

\* ourChecksum = (ourChecksum + int(c)) % 256
AddToChecksum(sum, c) == (sum + c) % 256

LengthCheckSkipped(compressedSize, n) == TRUE

\* p.compressedSize == buf.Len()
LengthMatches(compressedSize, n) == compressedSize = n

ChecksumCheckSkipped(sum) == TRUE

\* ourChecksum == 0 after the trailing byte was added
ChecksumMatches(sum) == sum = 0

\* ourChecksum after the bytes chunk[lo..hi] were added one by one (evaluated
\* by halves).
RECURSIVE AddBytes(_, _, _, _)
AddBytes(sum, chunk, lo, hi) ==
  IF lo > hi THEN sum
  ELSE IF lo = hi THEN AddToChecksum(sum, chunk[lo])
  ELSE LET mid  == (lo + hi) \div 2
           left == AddBytes(sum, chunk, lo, mid)
       IN  IF left >= 0 THEN AddBytes(left, chunk, mid + 1, hi) ELSE left

\* The receive loop of readCompressed: the next byte is rd[i], buf holds the
\* data bytes so far, sum is ourChecksum.  used is the number of bytes of rd
\* the call consumed.
RECURSIVE ReadChunks(_, _, _, _, _, _)
ReadChunks(rd, i, buf, sum, p, title) ==
  IF i > Len(rd)
  THEN [err |-> "EOF", data |-> << >>, title |-> title, used |-> Len(rd)]
  ELSE IF rd[i] = STX
  THEN LET length == ChunkLength(ByteAt(rd, i + 1))
           last   == i + 1 + length
       IN  IF last > Len(rd)
           THEN [err |-> "EOF", data |-> << >>, title |-> title, used |-> Len(rd)]
           ELSE LET chunk == SubSeq(rd, i + 2, last)
                IN  ReadChunks(rd, last + 1, buf \o chunk, AddBytes(sum, chunk, 1, length),
                               p, title)
  ELSE IF rd[i] = EOT
  THEN LET total == AddToChecksum(sum, ByteAt(rd, i + 1))
           used  == Min(i + 1, Len(rd))
       IN  IF ~ChecksumMatches(total)
           THEN [err |-> "Bad checksum", data |-> << >>, title |-> title, used |-> used]
           ELSE IF ~LengthMatches(p.compressedSize, Len(buf))
           THEN [err |-> "Length mismatch after EOT", data |-> << >>, title |-> title,
                 used |-> used]
           ELSE [err |-> "", data |-> buf, title |-> title, used |-> used]
  ELSE [err |-> "Unexpected byte in compressed stream", data |-> << >>, title |-> title,
        used |-> i]

\* WordDecoder.DecodeHeader(title): a title without encoded words is returned
\* as it is.
DecodeHeader(title) == title

CMSErrorNever(c) == FALSE

\* The first byte where a body is expected announces an error line of the CMS.
CMSError(c) == c = Asc["*"]

\* The line nextLine returns after the first byte of rd was read: the bytes up
\* to the CR.
CMSErrorLine(rd) ==
  SubSeq(rd, 2, (IF IndexFrom(rd, 1, CR) = 0 THEN Len(rd) + 1 ELSE IndexFrom(rd, 1, CR)) - 1)

\* readCompressed(rw, p) on the input rd: the error ("" for nil), the bytes
\* stored in p.compressedData, the title stored in p.title, and how much of rd
\* was consumed.
readCompressed(rd, p) ==
  LET fail(e, n) == [err |-> e, data |-> << >>, title |-> p.title, used |-> Min(n, Len(rd))]
      nul1 == IndexFrom(rd, 3, NUL)
      nul2 == IndexFrom(rd, nul1 + 1, NUL)
      title     == SubSeq(rd, 3, nul1 - 1)
      offsetStr == SubSeq(rd, nul1 + 1, nul2 - 1)
  IN  IF Len(rd) = 0 THEN fail("EOF", 0)
      ELSE IF CMSError(rd[1])
      THEN fail("Got error from CMS",
                IF IndexFrom(rd, 1, CR) = 0 THEN Len(rd) ELSE IndexFrom(rd, 1, CR))
      ELSE IF rd[1] # SOH THEN fail("First byte not as expected", 1)
      ELSE IF Len(rd) < 2 THEN fail("EOF", 1)
      ELSE IF nul1 = 0 THEN fail("Unable to parse title", Len(rd))
      ELSE IF nul2 = 0
      THEN [err |-> "Unable to parse offset", data |-> << >>,
            title |-> DecodeHeader(title), used |-> Len(rd)]
      ELSE IF rd[2] # Len(title) + Len(offsetStr) + 2
      THEN [err |-> "Header length mismatch", data |-> << >>,
            title |-> DecodeHeader(title), used |-> nul2]
      ELSE IF AtoiErr(offsetStr)
      THEN [err |-> "Offset header not parseable as integer", data |-> << >>,
            title |-> DecodeHeader(title), used |-> nul2]
      ELSE IF Atoi(offsetStr) # p.offset
      THEN [err |-> "Expected offset", data |-> << >>,
            title |-> DecodeHeader(title), used |-> nul2]
      ELSE ReadChunks(rd, nul2 + 1, << >>, 0, p, DecodeHeader(title))

(***************************************************************************)
(* SpecFrame: a body sent by writeCompressed and read by readCompressed    *)
(***************************************************************************)

MaxFrameLen  == 10     \* short bodies have 6..MaxFrameLen bytes
MaxFrameSeed == 3      \* byte patterns of the bodies

\* Body lengths around one and two full chunks, and short ones.
FrameLens == (6..MaxFrameLen) \cup {124, 125, 126, 127, 250, 251}

\* The proposal the receiver built from the proposal line: sizes and offset,
\* no data, no title.
ReceiverProposal(prop) ==
  [prop EXCEPT !.compressedData = << >>, !.title = << >>, !.offset = 0]

FrInit ==
  /\ MoreIdle
  /\ AnsIdle
  /\ OutIdle
  /\ InIdle
  /\ LzIdle
  /\ XIdle
  /\ remoteNoMsgs = FALSE
  /\ \E n \in FrameLens, seed \in 0..MaxFrameSeed :
        frProp = NewProposal(Asc["C"], Str(<<"E", "M">>), Mid(seed), 500 + n,
                             Body(n, seed), Str(<<"T">>) \o FmtDec(seed))
  /\ frWire = << >>
  /\ frRes = FrNone
  /\ frPc = "write"

\* writeCompressed at offset 0; the stream carries its writes in order.
FrWrite ==
  /\ frPc = "write"
  /\ frWire' = Concat(FrameWrites(frProp))
  /\ frPc' = "read"
  /\ UNCHANGED << frProp, frRes >>
  /\ UNCHANGED << ansVars, sessVars, outVars, inVars, lzVars, xVars, moreVars >>

\* readCompressed at the peer.
FrRead ==
  /\ frPc = "read"
  /\ frRes' = readCompressed(frWire, ReceiverProposal(frProp))
  /\ frPc' = "done"
  /\ UNCHANGED << frProp, frWire >>
  /\ UNCHANGED << ansVars, sessVars, outVars, inVars, lzVars, xVars, moreVars >>

FrNext == FrWrite \/ FrRead

SpecFrame == FrInit /\ [][FrNext]_vars

\* C2: a body of at least 6 bytes sent by writeCompressed at offset 0 is read
\* by readCompressed without error and stored byte for byte, and the byte c
\* after EOT makes (sum of the data bytes + c) mod 256 = 0.
C2_FrameRoundTrip ==
  /\ frPc = "done" =>
        /\ frRes.err = ""
        /\ frRes.data = frProp.compressedData
        /\ frRes.used = Len(frWire)
  /\ frPc \in {"read", "done"} =>
        /\ Len(frWire) >= 2
        /\ frWire[Len(frWire) - 1] = EOT
        /\ (SumBytes(frProp.compressedData) + frWire[Len(frWire)]) % 256 = 0

C2_Witness ==
  /\ frPc = "done"
  /\ frRes.err = ""
  /\ Len(frRes.data) = 251
  /\ frRes.data = frProp.compressedData
  /\ frWire[Len(frWire)] # 0

(***************************************************************************)
(* handleInbound and writeProposalsAnswer                                  *)
(***************************************************************************)

\* strings.Split(s, " ")
RECURSIVE SplitSpaces(_)
SplitSpaces(s) ==
  LET sp == IndexFrom(s, 1, 32)
  IN  IF sp = 0 THEN << s >>
      ELSE << SubSeq(s, 1, sp - 1) >> \o SplitSpaces(Drop(s, sp))

\* parseProposal(line, prop): the fields after "F? " are the message type, the
\* MID, the size, the compressed size and one more; fewer than five fields or
\* a size that is no number is an error.
parseProposal(line) ==
  LET parts == SplitSpaces(Drop(line, 3))
      none  == NewProposal(0, << >>, << >>, 0, << >>, << >>)
  IN  IF Len(line) < 3 \/ Len(parts) < 5 \/ AtoiErr(parts[3]) \/ AtoiErr(parts[4])
      THEN [err |-> "Unable to parse proposal", prop |-> none]
      ELSE [err |-> "",
            prop |-> [none EXCEPT !.code = line[2], !.msgType = parts[1], !.mid = parts[2],
                                  !.size = Atoi(parts[3]), !.compressedSize = Atoi(parts[4])]]

\* Whether an earlier proposal of the block has the MID of proposals[i].
SeenBefore(proposals, i) == \E j \in 1..(i - 1) : proposals[j].mid = proposals[i].mid

SupportedCodeAny(code) == TRUE

\* prop.code is Wl2kProposal or GzipProposal
SupportedCode(code) == code \in {Asc["C"], Asc["D"]}

ForcedDeferNoDuplicates(proposals, i, handler) ==
  ~SupportedCode(proposals[i].code) \/ ~handler

\* The proposals writeProposalsAnswer defers without asking the handler.
ForcedDefer(proposals, i, handler) ==
  SeenBefore(proposals, i) \/ ~SupportedCode(proposals[i].code) \/ ~handler

\* The positions the handler is asked about, in order.
Unanswered(proposals, handler) ==
  SelectSeq([i \in 1..Len(proposals) |-> i], LAMBDA i : ~ForcedDefer(proposals, i, handler))

\* The proposals after writeProposalsAnswer, given the handler's answers (one
\* per unanswered position).
AnsweredProposals(proposals, handler, answers) ==
  LET un == Unanswered(proposals, handler)
      posOf(i) == CHOOSE k \in 1..Len(un) : un[k] = i
  IN  [i \in 1..Len(proposals) |->
         IF ForcedDefer(proposals, i, handler)
         THEN [proposals[i] EXCEPT !.answer = Defer]
         ELSE [proposals[i] EXCEPT !.answer = answers[posOf(i)]]]

\* The line writeProposalsAnswer writes: "FS ", byte(prop.answer) per proposal, CR.
AnswerWrite(proposals) ==
  Str(<<"F", "S", " ">>) \o [i \in 1..Len(proposals) |-> proposals[i].answer] \o << CR >>

PromptCheckSkipped(their, our) == TRUE

\* their == ourChecksum
PromptMatches(their, our) == their = our

(***************************************************************************)
(* SpecIn: one call of handleInbound against a remote that proposes        *)
(***************************************************************************)

MaxInProps == 2     \* proposals the remote sends in one block
MaxInMsgs  == 2     \* different messages the remote has to offer

\* The message k as the remote holds it.
RemoteMessage(k) == CatalogProposal(k)

\* The lines the remote may send as proposals: its messages with code C or D,
\* one message offered with the code of an older protocol, and a line that
\* breaks off after the message type.
InProposalLines ==
  { ProposalLine(RemoteMessage(k)) : k \in 1..MaxInMsgs }
  \cup { ProposalLine([RemoteMessage(1) EXCEPT !.code = Asc["B"], !.mid = Mid(0)]) }
  \cup { Str(<<"F", "C", " ", "E", "M">>) }

\* The F> lines the remote may send after the lines it sent: the checksum in
\* upper and in lower case, and two values that are not the checksum.
LowerHex(s) == [i \in 1..Len(s) |-> IF s[i] >= 65 /\ s[i] <= 70 THEN s[i] + 32 ELSE s[i]]

InPromptLines(lines) ==
  LET sum == NegLow8(SumBytes(Concat(lines)) + CR * Len(lines))
  IN  { Str(<<"F", ">", " ">>) \o FmtHex02(sum),
        Str(<<"F", ">", " ">>) \o LowerHex(FmtHex02(sum)),
        Str(<<"F", ">", " ">>) \o FmtHex02((sum + 1) % 256),
        Str(<<"F", ">", " ">>) \o FmtHex02((sum + 16) % 256) }

InOtherLines ==
  { Str(<<"F", "F">>), Str(<<"F", "Q">>), Str(<<";", "c">>), << >>, Str(<<"X">>),
    Str(<<"F">>), Str(<<"F", "Z">>) }

\* The frames the remote may send for a body of n bytes: the data bytes and
\* the byte after EOT.  The first is the frame of writeCompressed; the others
\* have a wrong trailing byte, a byte too few or too many, or both faults.
InFrames(n, seed) ==
  LET good(d) == NegLow8(SumBytes(d))
  IN  { [data |-> Body(n, seed), trail |-> good(Body(n, seed))],
        [data |-> Body(n, seed), trail |-> (good(Body(n, seed)) + 1) % 256],
        [data |-> Body(n - 1, seed), trail |-> good(Body(n - 1, seed))],
        [data |-> Body(n + 1, seed), trail |-> good(Body(n + 1, seed))],
        [data |-> Body(n + 1, seed), trail |-> good(Body(n, seed))] }

\* The bytes of a frame with title t at offset 0.
FrameBytes(t, frame) ==
  Concat(<< FrameHeader([title |-> t, offset |-> 0]) >> \o FrameChunks(frame.data)
         \o << << EOT, frame.trail >> >>)

InInit ==
  /\ MoreIdle
  /\ AnsIdle
  /\ OutIdle
  /\ FrIdle
  /\ LzIdle
  /\ XIdle
  /\ remoteNoMsgs \in BOOLEAN
  /\ hasHandler \in BOOLEAN
  /\ iPc = "lines"
  /\ iProposals = << >>
  /\ iChecksum = 0
  /\ iWire = << >>
  /\ iIdx = 0
  /\ iErr = ""
  /\ iQuit = FALSE
  /\ hAsked = << >>
  /\ hProcessed = << >>
  /\ trafficReceived = << >>
  /\ rLines = << >>
  /\ rPrompt = << >>
  /\ rFrame = << >>
  /\ pendingMessages = << >>
  /\ rLast = << 0 >>

InUnchangedOthers == UNCHANGED << ansVars, outVars, frVars, lzVars, xVars, moreVars >>

\* handleInbound returns err.
InReturn(err) ==
  /\ iErr' = err
  /\ iPc' = "done"

\* parsePM(line): the fields after ";PM: " are the addressee, the MID, the
\* size and the sender; fewer than four fields or a size that is no number
\* is an error.
parsePM(line) ==
  LET parts == SplitSpaces(Drop(line, 5))
  IN  IF ~HasPrefix(line, Str(<<";", "P", "M", ":", " ">>)) \/ Len(parts) < 4
      THEN [err |-> "Unable to parse pending message", pm |-> << >>]
      ELSE IF AtoiErr(parts[3])
      THEN [err |-> "Unable to parse pending message", pm |-> << >>]
      ELSE [err |-> "",
            pm  |-> [MID |-> parts[2], Size |-> Atoi(parts[3]), To |-> parts[1],
                     From |-> parts[4]]]

\* s.pendingMessages after a line with the prefix ;PM was read: the record is
\* stored under its MID when the line parses.
StorePending(pending, line) ==
  LET Store(res) ==
        IF res.err # "" THEN pending
        ELSE [mid \in DOMAIN pending \cup {res.pm.MID} |->
                IF mid = res.pm.MID THEN res.pm ELSE pending[mid]]
  IN  Store(parsePM(line))

AttachNothing(prop, pending) == prop

\* The proposal as it is appended: with the pending-message record of its MID.
AttachPending(prop, pending) ==
  IF prop.mid \in DOMAIN pending
  THEN [prop EXCEPT !.pendingMessage = pending[prop.mid]]
  ELSE prop

\* The lines with the prefix ;PM the remote may send: two records for its
\* first message, one with a size that is no number, one that breaks off
\* after the addressee, and one without the colon.
InPMLines ==
  LET PM(mid, size) == Str(<<";", "P", "M", ":", " ", "T", "O", " ">>) \o mid \o Str(<<" ">>)
                         \o size \o Str(<<" ", "a", "@", "b">>)
  IN  { PM(Mid(1), FmtDec(123)), PM(Mid(1), FmtDec(45)),
        PM(Mid(2), Str(<<"x">>)),
        Str(<<";", "P", "M", ":", " ", "T", "O">>), Str(<<";", "P", "M", "X">>) }

\* The count of accepted proposals handleInbound declares; no statement
\* assigns it.
nAccepted == 0

\* The test after the read loop: the remote quit while accepted proposals
\* were pending.
QuitWhilePending(quitReceived) == quitReceived /\ nAccepted > 0

\* A line that is ignored, or fails, or ends the loop without a block.
UnexpectedLineNever(line) == FALSE

\* The line is not prefixed F? (? is the command character).
UnexpectedLine(line) == Len(line) < 2 \/ line[1] # Asc["F"]

\* A comment, an empty line, FF, FQ or a line that is no protocol line.
InOtherLine ==
  /\ iPc = "lines"
  /\ \E line \in InOtherLines :
       /\ rLast' = line
       /\ IF line = << >> \/ line[1] = Asc[";"]
          THEN UNCHANGED << iPc, iErr, iQuit, remoteNoMsgs, iIdx >>
          ELSE IF UnexpectedLine(line)
          THEN InReturn("Got unexpected protocol line") /\ UNCHANGED << iQuit, remoteNoMsgs, iIdx >>
          ELSE IF line = Str(<<"F", "F">>)
          THEN /\ remoteNoMsgs' = TRUE
               /\ iPc' = "bodies"
               /\ iIdx' = 1
               /\ UNCHANGED << iErr, iQuit >>
          ELSE IF line = Str(<<"F", "Q">>)
          THEN /\ iQuit' = TRUE
               /\ IF QuitWhilePending(TRUE)
                  THEN InReturn("Got quit command when inbound proposals were pending")
                       /\ UNCHANGED iIdx
                  ELSE /\ iPc' = "bodies"
                       /\ iIdx' = 1
                       /\ UNCHANGED iErr
               /\ UNCHANGED remoteNoMsgs
          ELSE InReturn("Unknown protocol command") /\ UNCHANGED << iQuit, remoteNoMsgs, iIdx >>
  /\ UNCHANGED << iProposals, iChecksum, iWire, hasHandler, hAsked, hProcessed,
                  trafficReceived, rLines, rPrompt, rFrame,
                  pendingMessages >>
  /\ InUnchangedOthers

\* A line with the prefix ;PM: its record is stored, or it is ignored.
InPMLine ==
  /\ iPc = "lines"
  /\ \E line \in InPMLines :
       /\ rLast' = line
       /\ pendingMessages' = StorePending(pendingMessages, line)
  /\ UNCHANGED << remoteNoMsgs, iPc, iProposals, iChecksum, iWire, iIdx, iErr, iQuit,
                  hasHandler, hAsked, hProcessed, trafficReceived, rLines, rPrompt, rFrame >>
  /\ InUnchangedOthers

\* A proposal line: it is summed, parsed and appended.
InProposalLine ==
  /\ iPc = "lines"
  /\ Len(rLines) < MaxInProps
  /\ \E line \in InProposalLines :
       LET res == parseProposal(line)
       IN  /\ rLines' = Append(rLines, line)
           /\ rLast' = line
           /\ iChecksum' = iChecksum + LineSum(line)
           /\ IF res.err # ""
              THEN InReturn(res.err) /\ UNCHANGED iProposals
              ELSE /\ iProposals' = Append(iProposals,
                                           AttachPending(res.prop, pendingMessages))
                   /\ UNCHANGED << iPc, iErr >>
  /\ UNCHANGED << remoteNoMsgs, iWire, iIdx, iQuit, hasHandler, hAsked, hProcessed,
                  trafficReceived, rPrompt, rFrame,
                  pendingMessages >>
  /\ InUnchangedOthers

\* The F> line: the checksum is verified and the block is answered.
InPromptLine ==
  /\ iPc = "lines"
  /\ \E line \in InPromptLines(rLines) :
       /\ rPrompt' = line
       /\ rLast' = line
       /\ iChecksum' = NegLow8(iChecksum)
       /\ IF ~PromptMatches(ParseHex(Drop(line, 3)), NegLow8(iChecksum))
          THEN /\ InReturn("Checksum error")
               /\ UNCHANGED << remoteNoMsgs, iProposals, iWire, iIdx, hAsked >>
          ELSE IF Len(iProposals) = 0
          THEN /\ remoteNoMsgs' = TRUE
               /\ iPc' = "done"
               /\ UNCHANGED << iErr, iProposals, iWire, iIdx, hAsked >>
          ELSE \E answers \in [1..Len(Unanswered(iProposals, hasHandler))
                                 -> {Accept, Reject, Defer}] :
                 /\ remoteNoMsgs' = FALSE
                 /\ hAsked' = hAsked \o Unanswered(iProposals, hasHandler)
                 /\ iProposals' = AnsweredProposals(iProposals, hasHandler, answers)
                 /\ iWire' = Append(iWire,
                                    AnswerWrite(AnsweredProposals(iProposals, hasHandler,
                                                                  answers)))
                 /\ iPc' = "bodies"
                 /\ iIdx' = 1
                 /\ UNCHANGED iErr
  /\ UNCHANGED << iQuit, hasHandler, hProcessed, trafficReceived, rLines, rFrame,
                  pendingMessages >>
  /\ InUnchangedOthers

\* The fetch loop passes every proposal but those answered with anything
\* else than Reject.
FetchedUnlessRejected(prop) == prop.answer # Reject

\* The fetch loop reads a body for the proposals answered Accept.
Fetched(prop) == prop.answer = Accept

\* The fetch loop passes a proposal that was not accepted.
InSkip ==
  /\ iPc = "bodies"
  /\ iIdx <= Len(iProposals)
  /\ ~Fetched(iProposals[iIdx])
  /\ iIdx' = iIdx + 1
  /\ UNCHANGED << remoteNoMsgs, iPc, iProposals, iChecksum, iWire, iErr, iQuit, hasHandler,
                  hAsked, hProcessed, trafficReceived, rLines, rPrompt, rFrame,
                  pendingMessages >>
  /\ UNCHANGED rLast
  /\ InUnchangedOthers

\* The fetch loop reads the body of an accepted proposal; msgOk and procOk
\* are the outcomes of prop.Message() and h.ProcessInbound(msg).
InBody ==
  /\ iPc = "bodies"
  /\ iIdx <= Len(iProposals)
  /\ Fetched(iProposals[iIdx])
  /\ \E frame \in InFrames(iProposals[iIdx].compressedSize, iIdx), msgOk, procOk \in BOOLEAN :
       LET prop == iProposals[iIdx]
           res  == readCompressed(FrameBytes(Str(<<"T">>), frame), prop)
       IN  /\ rFrame' = Append(rFrame, [idx |-> iIdx, data |-> frame.data,
                                        trail |-> frame.trail])
           /\ iProposals' = [iProposals EXCEPT ![iIdx].title = res.title,
                                               ![iIdx].compressedData = res.data]
           /\ IF res.err # ""
              THEN InReturn(res.err) /\ UNCHANGED << iIdx, hProcessed, trafficReceived >>
              ELSE IF ~msgOk
              THEN InReturn("Message") /\ UNCHANGED << iIdx, hProcessed, trafficReceived >>
              ELSE IF ~procOk
              THEN /\ InReturn("ProcessInbound")
                   /\ hProcessed' = Append(hProcessed, prop.mid)
                   /\ UNCHANGED << iIdx, trafficReceived >>
              ELSE /\ hProcessed' = Append(hProcessed, prop.mid)
                   /\ trafficReceived' = Append(trafficReceived, prop.mid)
                   /\ iIdx' = iIdx + 1
                   /\ UNCHANGED << iPc, iErr >>
  /\ UNCHANGED << remoteNoMsgs, iChecksum, iWire, iQuit, hasHandler, hAsked, rLines, rPrompt,
                  pendingMessages, rLast >>
  /\ InUnchangedOthers

\* The error lines a CMS may send where a body is expected.
InCMSErrors ==
  { Str(<<"*", "*", "*", " ", "E">>) \o << CR >>,
    Str(<<"*", "*", "*", " ", "T", "O">>) \o << CR >>,
    Str(<<"*">>) \o << CR >> }

\* The remote sends an error line, or the connection ends, where a body is
\* expected.
InBodyFails ==
  /\ iPc = "bodies"
  /\ iIdx <= Len(iProposals)
  /\ Fetched(iProposals[iIdx])
  /\ \E rd \in { << >> } \cup InCMSErrors :
       /\ InReturn(readCompressed(rd, iProposals[iIdx]).err)
       /\ rLast' = IF rd # << >> /\ CMSError(rd[1]) THEN CMSErrorLine(rd) ELSE rLast
  /\ UNCHANGED << remoteNoMsgs, iProposals, iChecksum, iWire, iIdx, iQuit, hasHandler, hAsked,
                  hProcessed, trafficReceived, rLines, rPrompt, rFrame,
                  pendingMessages >>
  /\ InUnchangedOthers

\* The fetch loop is through: handleInbound returns nil.
InFinish ==
  /\ iPc = "bodies"
  /\ iIdx > Len(iProposals)
  /\ iPc' = "done"
  /\ UNCHANGED << remoteNoMsgs, iProposals, iChecksum, iWire, iIdx, iErr, iQuit, hasHandler,
                  hAsked, hProcessed, trafficReceived, rLines, rPrompt, rFrame,
                  pendingMessages >>
  /\ UNCHANGED rLast
  /\ InUnchangedOthers

InNext ==
  \/ InOtherLine
  \/ InPMLine
  \/ InProposalLine
  \/ InPromptLine
  \/ InSkip
  \/ InBody
  \/ InBodyFails
  \/ InFinish

SpecIn == InInit /\ [][InNext]_vars

(***************************************************************************)
(* Properties of the inbound block                                         *)
(***************************************************************************)

\* The checksum of the proposal lines the remote sent, computed from the
\* lines themselves.
SentLinesChecksum == NegLow8(SumBytes(Concat(rLines)) + CR * Len(rLines))

\* The remote ended the block with an F> line whose value is not the checksum.
PromptMismatch ==
  /\ rPrompt # << >>
  /\ ParseHex(Drop(rPrompt, 3)) # SentLinesChecksum

\* C4: when the value of the F> line differs from the checksum computed over
\* the proposal lines of the block, handleInbound returns an error, no FS
\* answer is written, the handler is not asked, and no body is read.
C4_PromptMismatchAborts ==
  PromptMismatch =>
    /\ iPc = "done"
    /\ iErr = "Checksum error"
    /\ iWire = << >>
    /\ hAsked = << >>
    /\ rFrame = << >>
    /\ hProcessed = << >>
    /\ \A i \in 1..Len(iProposals) : iProposals[i].answer = NoAnswer

C4_Witness ==
  /\ PromptMismatch
  /\ Len(iProposals) = MaxInProps
  /\ hasHandler
  /\ iPc = "done"

\* The frame the remote sent for a proposal fails one of the two checks.
FrameBad(f) ==
  \/ (SumRange(f.data, 1, Len(f.data)) + f.trail) % 256 # 0
  \/ Len(f.data) # iProposals[f.idx].compressedSize

\* C5: a body is accepted only if both checks pass.  Whenever the sum of
\* the data bytes plus the trailing byte is not 0 mod 256, or the number of
\* data bytes differs from compressedSize, readCompressed returns an error,
\* the proposal is left without compressed data, and its message is not
\* handed to ProcessInbound.
C5_BodyChecks ==
  /\ \A k \in 1..Len(rFrame) :
       FrameBad(rFrame[k]) =>
         /\ iErr \in {"Bad checksum", "Length mismatch after EOT"}
         /\ iPc = "done"
         /\ iProposals[rFrame[k].idx].compressedData = << >>
         /\ \A j \in 1..Len(hProcessed) : hProcessed[j] # iProposals[rFrame[k].idx].mid
         /\ Len(hProcessed) = k - 1
  /\ \A i \in 1..Len(iProposals) :
       iProposals[i].compressedData # << >> =>
         \E k \in 1..Len(rFrame) :
           /\ rFrame[k].idx = i
           /\ ~FrameBad(rFrame[k])
           /\ rFrame[k].data = iProposals[i].compressedData

\* A second body arrives with a right checksum and a wrong length after a
\* first body was processed.
C5_Witness ==
  /\ Len(rFrame) = 2
  /\ Len(hProcessed) = 1
  /\ FrameBad(rFrame[2])
  /\ (SumRange(rFrame[2].data, 1, Len(rFrame[2].data)) + rFrame[2].trail) % 256 = 0
  /\ iErr = "Length mismatch after EOT"

\* The MID and the code of the i-th proposal line the remote sent.
SentMid(i)  == SplitSpaces(rLines[i])[3]
SentCode(i) == rLines[i][2]

\* The i-th proposal of the block must be deferred without asking the handler.
MustDefer(i) ==
  \/ \E j \in 1..(i - 1) : SentMid(j) = SentMid(i)
  \/ SentCode(i) \notin {Asc["C"], Asc["D"]}
  \/ ~hasHandler

\* C10: in the answer to an inbound block, duplicates of an earlier MID,
\* proposals with a code other than C or D, and, with no handler installed,
\* all proposals are answered Defer; the handler is asked only about the
\* others; the FS line carries one answer character per received proposal
\* in the order received.
C10_AnswerLine ==
  iWire # << >> =>
    LET fs == iWire[1]
        n  == Len(rLines)
    IN  /\ Len(iWire) = 1
        /\ Len(iProposals) = n
        /\ Len(fs) = n + 4
        /\ SubSeq(fs, 1, 3) = Str(<<"F", "S", " ">>)
        /\ fs[n + 4] = CR
        /\ \A i \in 1..n :
             /\ fs[3 + i] = iProposals[i].answer
             /\ iProposals[i].mid = SentMid(i)
             /\ MustDefer(i) => fs[3 + i] = Defer
             /\ MustDefer(i) <=> (\A k \in 1..Len(hAsked) : hAsked[k] # i)
        /\ \A k \in 1..(Len(hAsked) - 1) : hAsked[k] < hAsked[k + 1]

\* A block whose second proposal repeats the MID of the first, which the
\* handler accepted.
C10_Witness ==
  /\ iWire # << >>
  /\ Len(rLines) = 2
  /\ SentMid(1) = SentMid(2)
  /\ hasHandler
  /\ iProposals[1].answer = Accept
  /\ iProposals[2].answer = Defer

\* The proposals of the block before position n that were answered Accept,
\* in the order received.
AcceptedBefore(n) ==
  SelectSeq([i \in 1..Len(iProposals) |-> i],
            LAMBDA i : i < n /\ iProposals[i].answer = Accept)

\* C11: after the block was answered, handleInbound reads a body for exactly
\* the proposals answered Accept, in proposal order; each received message
\* is handed to ProcessInbound once and its MID is then appended to
\* trafficStats.Received; nothing is read or recorded for a deferred or
\* rejected proposal, and a MID is recorded only after ProcessInbound
\* succeeded.
C11_AcceptedBodies ==
  /\ \A k \in 1..Len(rFrame) : iProposals[rFrame[k].idx].answer = Accept
  /\ iPc = "bodies" =>
       /\ [k \in 1..Len(rFrame) |-> rFrame[k].idx] = AcceptedBefore(iIdx)
       /\ hProcessed = [k \in 1..Len(rFrame) |-> iProposals[rFrame[k].idx].mid]
       /\ trafficReceived = hProcessed
  /\ (iPc = "done" /\ iErr = "" /\ iWire # << >>) =>
       /\ [k \in 1..Len(rFrame) |-> rFrame[k].idx] = AcceptedBefore(Len(iProposals) + 1)
       /\ hProcessed = [k \in 1..Len(rFrame) |-> iProposals[rFrame[k].idx].mid]
       /\ trafficReceived = hProcessed
  /\ Len(trafficReceived) <= Len(hProcessed)
  /\ Len(hProcessed) <= Len(rFrame)
  /\ \A k \in 1..Len(hProcessed) : hProcessed[k] = iProposals[rFrame[k].idx].mid
  /\ trafficReceived = SubSeq(hProcessed, 1, Len(trafficReceived))
  /\ Len(trafficReceived) < Len(hProcessed) =>
       /\ iErr = "ProcessInbound"
       /\ Len(hProcessed) = Len(trafficReceived) + 1

\* A block of two proposals, the first deferred and the second accepted, was
\* handled to the end: one body was read, for the second proposal.
C11_Witness ==
  /\ iPc = "done"
  /\ iErr = ""
  /\ Len(iProposals) = 2
  /\ iProposals[1].answer = Defer
  /\ iProposals[2].answer = Accept
  /\ Len(rFrame) = 1
  /\ rFrame[1].idx = 2
  /\ trafficReceived = << iProposals[2].mid >>

\* handleInbound returned nil after it answered a block.
ReturnedAfterBlock == iPc = "done" /\ iErr = "" /\ iWire # << >>

\* C12: after an inbound block in which at least one proposal was accepted,
\* handleInbound returns once the accepted bodies are received, and the local
\* side becomes the sender; after a block in which no proposal was accepted
\* it does not return to let the local side send, but keeps receiving (the
\* next block, FF or FQ).
C12_TurnoverOnlyAfterAccept ==
  ReturnedAfterBlock =>
    /\ \E i \in 1..Len(iProposals) : iProposals[i].answer = Accept
    /\ Len(rFrame) = Len(AcceptedBefore(Len(iProposals) + 1))
    /\ ~iQuit
    /\ ~remoteNoMsgs

\* C14: handleInbound returns quitReceived = true when the remote sent FQ,
\* and it returns an error when FQ arrives while inbound proposals are still
\* pending (received or accepted, their handling not finished).
C14_QuitWhilePendingFails ==
  (iQuit /\ iPc = "done") =>
    /\ iWire = << >>
    /\ rFrame = << >>
    /\ Len(iProposals) > 0 => iErr # ""
    /\ Len(iProposals) = 0 => iErr = ""

\* A blank line or a line that starts with a semicolon.
IsComment(line) == line = << >> \/ line[1] = Asc[";"]

\* The step reads a blank line or a line that starts with a semicolon.
ReadsComment == iPc = "lines" /\ IsComment(rLast')

\* C18: during the inbound phase a ;PM: line stores its record in the
\* pending-message table under its MID, and a proposal received later with
\* that MID gets the record attached; every other line that starts with a
\* semicolon and every blank line changes no session state; none of these
\* lines adds to the block checksum or causes an error.
C18_PendingMessages ==
  /\ [](rPrompt = << >> => iChecksum = SumBytes(Concat(rLines)) + CR * Len(rLines))
  /\ [][ /\ ReadsComment =>
             /\ UNCHANGED << iPc, iErr, iChecksum, iProposals, iWire, iIdx, iQuit,
                             remoteNoMsgs, hAsked, hProcessed, trafficReceived >>
             /\ IF HasPrefix(rLast', Str(<<";", "P", "M", ":", " ">>))
                   /\ parsePM(rLast').err = ""
                THEN /\ DOMAIN pendingMessages'
                          = DOMAIN pendingMessages \cup {parsePM(rLast').pm.MID}
                     /\ \A mid \in DOMAIN pendingMessages' :
                          pendingMessages'[mid] =
                            IF mid = parsePM(rLast').pm.MID THEN parsePM(rLast').pm
                            ELSE pendingMessages[mid]
                ELSE UNCHANGED pendingMessages
        /\ ~ReadsComment => UNCHANGED pendingMessages
        /\ \A i \in 1..Len(iProposals') :
             iProposals'[i].pendingMessage =
               IF i <= Len(iProposals) THEN iProposals[i].pendingMessage
               ELSE IF iProposals'[i].mid \in DOMAIN pendingMessages
               THEN pendingMessages[iProposals'[i].mid]
               ELSE << >>
     ]_vars

\* A block of two proposals was handled to the end; the first proposal
\* carries the later record of its MID and no record names the second.
C18_Witness ==
  /\ iPc = "done"
  /\ iErr = ""
  /\ Len(iProposals) = 2
  /\ iProposals[1].pendingMessage # << >>
  /\ iProposals[1].pendingMessage.MID = iProposals[1].mid
  /\ iProposals[1].pendingMessage.Size = 45
  /\ iProposals[2].pendingMessage = << >>
  /\ DOMAIN pendingMessages = {Mid(1)}
  /\ iWire # << >>

\* Where a body is expected the remote sent something that is no frame, and
\* the connection did not end: an error line of the CMS.
\* The lines handleInbound has no case for, and the proposal lines
\* parseProposal fails on; comments and empty lines are none of them.
Malformed(line) ==
  /\ line # << >>
  /\ line[1] # Asc[";"]
  /\ \/ Len(line) < 2
     \/ line[1] # Asc["F"]
     \/ line[2] \notin {Asc["A"], Asc["B"], Asc["C"], Asc["D"], Asc["F"], Asc["Q"], Asc[">"]}
     \/ line[2] \in {Asc["A"], Asc["B"], Asc["C"], Asc["D"]} /\ parseProposal(line).err # ""

\* The error handleInbound returns for a malformed line.
MalformedError(line) ==
  IF Len(line) < 2 \/ line[1] # Asc["F"] THEN "Got unexpected protocol line"
  ELSE IF line[2] \in {Asc["A"], Asc["B"], Asc["C"], Asc["D"]} THEN "Unable to parse proposal"
  ELSE "Unknown protocol command"

\* C22: handleInbound returns an error, without writing anything, for every
\* received line that is neither blank nor a comment and that is shorter than
\* two characters, does not start with F, has a command character other than
\* A, B, C, D, F, Q and >, or is a proposal line that cannot be parsed; a
\* handler that is still reading lines has read none of these (rLast is
\* << 0 >> before the first line).
C22_MalformedLineFatal ==
  /\ [][ (iPc = "lines" /\ rLast' # << 0 >> /\ Malformed(rLast'))
           => /\ iPc' = "done"
              /\ iErr' = MalformedError(rLast')
              /\ iWire' = iWire
              /\ UNCHANGED << iProposals, hAsked, hProcessed, trafficReceived, remoteNoMsgs >> ]_vars
  /\ [](iPc = "lines" => rLast = << 0 >> \/ ~Malformed(rLast))

C22_Witness ==
  /\ iPc = "done"
  /\ iErr = "Unknown protocol command"
  /\ rLast = Str(<<"F", "Z">>)
  /\ Len(iProposals) = 1
  /\ iWire = << >>

CMSRefuses ==
  /\ iPc = "bodies"
  /\ iPc' = "done"
  /\ rFrame' = rFrame
  /\ iErr' # iErr
  /\ iErr' # "EOF"

\* C21: when the first byte where an accepted body is expected is *,
\* handleInbound returns the error of readCompressed with the rest of that
\* line, and ProcessInbound is called neither for that proposal nor for a
\* later one of the block.
C21_CMSErrorAborts ==
  /\ [][ CMSRefuses
           => /\ iErr' = "Got error from CMS"
              /\ iPc' = "done"
              /\ << Asc["*"] >> \o rLast' \o << CR >> \in InCMSErrors
              /\ UNCHANGED << hProcessed, trafficReceived, iProposals, iIdx, iWire >> ]_vars
  /\ [](iErr = "Got error from CMS"
          => /\ iPc = "done"
             /\ Fetched(iProposals[iIdx])
             /\ hProcessed = [k \in 1..Len(AcceptedBefore(iIdx)) |->
                                iProposals[AcceptedBefore(iIdx)[k]].mid]
             /\ \A j \in iIdx..Len(iProposals) :
                  \A k \in 1..Len(hProcessed) :
                    hProcessed[k] = iProposals[j].mid
                      => \E i \in 1..(iIdx - 1) : iProposals[i].mid = iProposals[j].mid
                                                   /\ iProposals[i].answer = Accept)

\* The first body of a block of two accepted proposals was stored; where the
\* second was expected the line "*** TO" came.
C21_Witness ==
  /\ iPc = "done"
  /\ iErr = "Got error from CMS"
  /\ rLast = Str(<<"*", "*", " ", "T", "O">>)
  /\ iIdx = 2
  /\ Len(iProposals) = 2
  /\ Len(hProcessed) = 1
  /\ iProposals[2].compressedData = << >>

(***************************************************************************)
(* Properties of the proposal block                                        *)
(***************************************************************************)

IsProposalWrite(w) ==
  Len(w) >= 2 /\ w[1] = Asc["F"] /\ w[2] \in {Asc["A"], Asc["B"], Asc["C"], Asc["D"]}

IsPromptWrite(w) == HasPrefix(w, Str(<<"F", ">">>))

\* The position in oWire of the first F> line, 0 when there is none.
PromptIndex ==
  LET idx == {i \in 1..Len(oWire) : IsPromptWrite(oWire[i])}
  IN  IF idx = {} THEN 0 ELSE CHOOSE i \in idx : \A j \in idx : i <= j

\* The value XX of a written line "F> XX\r", read as the receiver reads it.
PromptValue(w) == ParseHex(SubSeq(w, 4, Len(w) - 1))

\* sendOutbound has written a block and waits for the answer.
BlockWritten == oPc = "answer"

\* C1: in every proposal block sendOutbound wrote, the bytes of all proposal
\* lines (each with its CR) plus the value of the F> line sum to 0 modulo 256.
C1_BlockChecksum ==
  BlockWritten =>
    /\ PromptIndex > 1
    /\ Len(oWire[PromptIndex]) = 6
    /\ (SumBytes(Concat(SubSeq(oWire, 1, PromptIndex - 1)))
          + PromptValue(oWire[PromptIndex])) % 256 = 0

C1_Witness ==
  /\ BlockWritten
  /\ PromptIndex = 6
  /\ PromptValue(oWire[PromptIndex]) > 15
  /\ \E i, j \in 1..5 : oWire[i][2] # oWire[j][2]

\* C9: a block holds 1 to 5 proposal lines, those of the first min(5, n)
\* proposals of the outbound queue in queue order; with an empty queue
\* handleOutbound writes no block.
C9_BlockIsQueuePrefix ==
  /\ (oPc \notin {"idle", "start"} /\ Len(outbox) = 0) =>
        \A i \in 1..Len(oWire) : ~IsProposalWrite(oWire[i]) /\ ~IsPromptWrite(oWire[i])
  /\ BlockWritten =>
        /\ Len(outbox) > 0
        /\ PromptIndex - 1 \in 1..5
        /\ PromptIndex - 1 = Min(5, Len(outbox))
        /\ PromptIndex = Len(oWire)
        /\ \A i \in 1..(PromptIndex - 1) : oWire[i] = ProposalLine(outbox[i]) \o << CR >>

C9_Witness ==
  /\ oPc = "answer"
  /\ Len(outbox) = 6
  /\ PromptIndex = 6
  /\ oWire[5] = ProposalLine(outbox[5]) \o << CR >>

\* C8: when writeCompressed starts on a body the proposal's offset is at most
\* its compressed size, and taking the body from the offset stays in range.
C8_OffsetWithinBody ==
  /\ oPc # "panic"
  /\ (oPc = "bodies" /\ oIdx <= Len(oBlock) /\ oBlock[oIdx].answer = Accept)
       => oBlock[oIdx].offset <= oBlock[oIdx].compressedSize

(***************************************************************************)
(* LZHUF: constants, window, match trees and the adaptive Huffman tree     *)
(***************************************************************************)

N         == 4096              \* window size
F         == 60                \* longest match
THRESHOLD == 2                 \* matches no longer than this are sent as literals
NIL       == N                 \* no node
NCHAR     == 256 - THRESHOLD + F
T         == NCHAR * 2 - 1     \* size of the Huffman table
R         == T - 1             \* root of the Huffman tree

\* (x & (_N - 1)) on a two's complement int
WrapN(x) == x % N

\* An array is held as the entries that were assigned (Put), over the
\* contents it has after construction (InitAt).
Put(a, i, v) == (i :> v) @@ a

\* freq[0..T] after the Huffman tree was set up, as a sequence (freq[j] is
\* its element j + 1): the NCHAR leaves have frequency 1, node j >= NCHAR has
\* the sons 2(j-NCHAR) and 2(j-NCHAR)+1, and freq[T] is the sentinel 0xffff.
FreqTable ==
  LET RECURSIVE LeavesBelow(_)
      LeavesBelow(j) ==
        IF j < NCHAR THEN 1
        ELSE LeavesBelow(2 * (j - NCHAR)) + LeavesBelow(2 * (j - NCHAR) + 1)
  IN  [j \in 1..(T + 1) |-> IF j - 1 = T THEN 65535 ELSE LeavesBelow(j - 1)] \o << >>

\* The arrays after construction.  textBuf: spaces in [0, N-F), zero
\* elsewhere.  dad, lson, rson after InitTree: rson[N+1..N+256] and
\* dad[0..N-1] are NIL, the rest is zero.  son and prnt: the leaf of symbol
\* c is node prnt[c + T], and son of a leaf is its symbol plus T.
InitAt(a, i) ==
  CASE a = "text" -> IF i < N - F THEN 32 ELSE 0
    [] a = "dad"  -> IF i < N THEN NIL ELSE 0
    [] a = "lson" -> 0
    [] a = "rson" -> IF i > N THEN NIL ELSE 0
    [] a = "freq" -> FreqTable[i + 1]
    [] a = "son"  -> IF i < NCHAR THEN i + T ELSE 2 * (i - NCHAR)
    [] a = "prnt" -> IF i >= T THEN i - T ELSE IF i = R THEN 0 ELSE NCHAR + (i \div 2)

\* z.a[i]
At(a, z, i) == IF i \in DOMAIN z[a] THEN z[a][i] ELSE InitAt(a, i)

\* newLZHUFF() followed by InitTree() and the filling of the window
newLZHUFF ==
  [text |-> << >>, dad |-> << >>, lson |-> << >>, rson |-> << >>,
   freq |-> << >>, prnt |-> << >>, son |-> << >>,
   matchLength |-> 0, matchPosition |-> 0]

\* Where `for i = 1; i < F; i++ { if cmp = key[i] - textBuf[p+i]; cmp != 0
\* { break } }` leaves i: at the first difference of the strings at r and
\* p, or at F (searched by halves, left half first).
AgreeLength(z, r, p) ==
  LET RECURSIVE FirstDifference(_, _)
      FirstDifference(lo, hi) ==
        IF lo = hi
        THEN (IF At("text", z, r + lo) # At("text", z, p + lo) THEN lo ELSE F)
        ELSE LET OrRight(left) ==
                   IF left < F THEN left
                   ELSE FirstDifference(((lo + hi) \div 2) + 1, hi)
             IN  OrRight(FirstDifference(lo, (lo + hi) \div 2))
  IN  FirstDifference(1, F - 1)

\* InsertNode(r): the string at r enters the tree of its first byte, and
\* matchLength and matchPosition are set to the longest match met; of two
\* matches of that length the nearer one is kept.  A node with a string
\* equal over F bytes is replaced by r.
InsertNode(z0, r) ==
  LET \* the node r takes the place of the node p
      Take(z, p)    == [z EXCEPT !.dad = Put(@, r, At("dad", z, p)),
                                 !.lson = Put(@, r, At("lson", z, p)),
                                 !.rson = Put(@, r, At("rson", z, p))]
      AdoptL(z, p)  == [z EXCEPT !.dad = Put(@, At("lson", z, p), r)]
      AdoptR(z, p)  == [z EXCEPT !.dad = Put(@, At("rson", z, p), r)]
      Hang(z, p)    == IF At("rson", z, At("dad", z, p)) = p
                       THEN [z EXCEPT !.rson = Put(@, At("dad", z, p), r)]
                       ELSE [z EXCEPT !.lson = Put(@, At("dad", z, p), r)]
      Remove(z, p)  == [z EXCEPT !.dad = Put(@, p, NIL)]
      ReplaceNode(z, p) == Remove(Hang(AdoptR(AdoptL(Take(z, p), p), p), p), p)
      \* a match of i bytes at the distance dist
      Match(z, i, dist) ==
        IF i > THRESHOLD /\ i > z.matchLength
        THEN [z EXCEPT !.matchPosition = dist, !.matchLength = i]
        ELSE IF i > THRESHOLD /\ i = z.matchLength /\ dist < z.matchPosition
        THEN [z EXCEPT !.matchPosition = dist]
        ELSE z
      \* r becomes a son of p
      Attach(z, p, cmp) ==
        IF cmp >= 0
        THEN [z EXCEPT !.rson = Put(@, p, r), !.dad = Put(@, r, p)]
        ELSE [z EXCEPT !.lson = Put(@, p, r), !.dad = Put(@, r, p)]
      \* the loop: p is the node reached, cmp the last comparison
      RECURSIVE InsertWalk(_, _, _)
      InsertWalk(z, p, cmp) ==
        LET Compared(next, i) ==
              IF i >= F
              THEN ReplaceNode(Match(z, i, WrapN(r - next + N) - 1), next)
              ELSE InsertWalk(Match(z, i, WrapN(r - next + N) - 1), next,
                              At("text", z, r + i) - At("text", z, next + i))
            Visit(next) ==
              IF next = NIL THEN Attach(z, p, cmp)
              ELSE Compared(next, AgreeLength(z, r, next))
        IN  Visit(IF cmp >= 0 THEN At("rson", z, p) ELSE At("lson", z, p))
  IN  InsertWalk([z0 EXCEPT !.rson = Put(@, r, NIL), !.lson = Put(@, r, NIL),
                            !.matchLength = 0],
                 N + 1 + At("text", z0, r), 1)

\* DeleteNode(p): the node p leaves the tree; q takes its place.  With two
\* sons q is the rightmost node below the left son, which is first taken
\* out of its own place.
DeleteNode(z0, p) ==
  LET RECURSIVE Rightmost(_)
      Rightmost(q) == IF At("rson", z0, q) = NIL THEN q ELSE Rightmost(At("rson", z0, q))
      Unhook(z, q)   == [z EXCEPT !.rson = Put(@, At("dad", z, q), At("lson", z, q))]
      Rehang(z, q)   == [z EXCEPT !.dad = Put(@, At("lson", z, q), At("dad", z, q))]
      TakeL(z, q)    == [z EXCEPT !.lson = Put(@, q, At("lson", z, p))]
      AdoptL(z, q)   == [z EXCEPT !.dad = Put(@, At("lson", z, p), q)]
      TakeR(z, q)    == [z EXCEPT !.rson = Put(@, q, At("rson", z, p))]
      AdoptR(z, q)   == [z EXCEPT !.dad = Put(@, At("rson", z, p), q)]
      Up(z, q)       == [z EXCEPT !.dad = Put(@, q, At("dad", z, p))]
      Hang(z, q)     == IF At("rson", z, At("dad", z, p)) = p
                        THEN [z EXCEPT !.rson = Put(@, At("dad", z, p), q)]
                        ELSE [z EXCEPT !.lson = Put(@, At("dad", z, p), q)]
      Remove(z)      == [z EXCEPT !.dad = Put(@, p, NIL)]
      Finish(z, q)   == Remove(Hang(Up(z, q), q))
      Lift(z, q)     == IF q = At("lson", z0, p) THEN z
                        ELSE AdoptL(TakeL(Rehang(Unhook(z, q), q), q), q)
      TwoSons(q)     == Finish(AdoptR(TakeR(Lift(z0, q), q), q), q)
  IN  IF At("dad", z0, p) = NIL THEN z0
      ELSE IF At("rson", z0, p) = NIL THEN Finish(z0, At("lson", z0, p))
      ELSE IF At("lson", z0, p) = NIL THEN Finish(z0, At("rson", z0, p))
      ELSE TwoSons(Rightmost(At("lson", z0, p)))

\* update(c): the symbol c was coded once more.  From its leaf to the root
\* the frequency of the node is raised, and a node whose frequency now
\* exceeds that of its successor is exchanged with the last node of lower
\* frequency: `if (k > freq[l = c + 1]) { while (k > freq[++l]); l-- }`
\* (freq[T] is 0xffff, so the search ends).  (The tree is rebuilt when
\* freq[R] reaches 0x8000, that is after 0x8000 - NCHAR symbols; the inputs
\* of SpecLZ are shorter.)
update(z0, sym) ==
  LET Least(S) == CHOOSE m \in S : \A q \in S : m <= q
      LastBelow(z, c, k) ==
        IF k <= At("freq", z, c + 1) THEN c
        ELSE Least({m \in (c + 2)..T : k <= At("freq", z, m)}) - 1
      \* prnt[n] = v, and prnt[n+1] = v when n is an inner node
      PutSons(a, n, v) == IF n < T THEN Put(Put(a, n, v), n + 1, v) ELSE Put(a, n, v)
      \* the nodes c and l change places; i and j are their sons
      Exchange(z, c, l, k, i, j) ==
        [z EXCEPT !.freq = Put(Put(@, c, At("freq", z, l)), l, k),
                  !.prnt = PutSons(PutSons(@, i, l), j, c),
                  !.son = Put(Put(@, l, i), c, j)]
      RECURSIVE UpdateWalk(_, _)
      UpdateWalk(z, c) ==
        LET Climb(z2, up) == IF up = 0 THEN z2 ELSE UpdateWalk(z2, up)
            From(z2, c2)  == Climb(z2, At("prnt", z2, c2))
            Placed(z1, k, l) ==
              IF l > c
              THEN From(Exchange(z1, c, l, k, At("son", z1, c), At("son", z1, l)), l)
              ELSE From(z1, c)
            Raised(z1, k) == Placed(z1, k, LastBelow(z1, c, k))
        IN  Raised([z EXCEPT !.freq = Put(@, c, At("freq", z, c) + 1)],
                   At("freq", z, c) + 1)
  IN  UpdateWalk(z0, At("prnt", z0, sym + T))

(***************************************************************************)
(* LZHUF: position code, bit operations, CRC                               *)
(***************************************************************************)

\* x << n on the low 16 bits, and x >> n
Shl16(x, n) == IF n >= 16 THEN 0 ELSE (x % (2 ^ (16 - n))) * (2 ^ n)
Shr(x, n)   == IF n >= 31 THEN 0 ELSE x \div (2 ^ n)

\* a | b on 16 bits
Or16(a, b) ==
  LET RECURSIVE OrBits(_, _, _)
      OrBits(x, y, n) ==
        IF n = 0 THEN 0
        ELSE (IF (x % 2) + (y % 2) > 0 THEN 1 ELSE 0) + 2 * OrBits(x \div 2, y \div 2, n - 1)
  IN  OrBits(a, b, 16)

\* The code of the upper six bits of a position: its length in bits, and the
\* code itself, left-aligned in a byte.
PLen(i) ==
  IF i < 1 THEN 3 ELSE IF i < 4 THEN 4 ELSE IF i < 12 THEN 5
  ELSE IF i < 24 THEN 6 ELSE IF i < 48 THEN 7 ELSE 8

PCode(i) ==
  IF i < 1 THEN 0
  ELSE IF i < 4 THEN 32 + (i - 1) * 16
  ELSE IF i < 12 THEN 80 + (i - 4) * 8
  ELSE IF i < 24 THEN 144 + (i - 12) * 4
  ELSE IF i < 48 THEN 192 + (i - 24) * 2
  ELSE 240 + (i - 48)

\* The inverse tables: the upper six bits coded by the byte x, and the length
\* of their code.
DCode(x) == CHOOSE i \in 0..63 : PCode(i) <= x /\ x < PCode(i) + 2 ^ (8 - PLen(i))
DLen(x)  == PLen(DCode(x))

\* CRC-16, polynomial 0x1021, initial value 0, the bits of each byte going
\* in highest first.
crc(bs) ==
  LET FlipBit(x, n) == IF (x \div (2 ^ n)) % 2 = 1 THEN x - 2 ^ n ELSE x + 2 ^ n
      XorPoly(x)    == FlipBit(FlipBit(FlipBit(x, 12), 5), 0)
      RECURSIVE CrcBits(_, _, _)
      CrcBits(c, b, n) ==
        IF n = 0 THEN c
        ELSE LET top == ((c \div 32768) + (b \div (2 ^ (n - 1)))) % 2
                 sh  == (c % 32768) * 2
                 c1  == IF top = 1 THEN XorPoly(sh) ELSE sh
             IN  IF c1 >= 0 THEN CrcBits(c1, b, n - 1) ELSE c1
      RECURSIVE CrcFrom(_, _)
      CrcFrom(c, i) ==
        IF i > Len(bs) THEN c
        ELSE LET c1 == CrcBits(c, bs[i], 8)
             IN  IF c1 >= 0 THEN CrcFrom(c1, i + 1) ELSE c1
  IN  CrcFrom(0, 1)

\* binary.Write(.., binary.LittleEndian, x) for an uint16 or an int32 >= 0:
\* n bytes
LittleEndian(x, n) == [k \in 1..n |-> (x \div (256 ^ (k - 1))) % 256]

\* binary.Read(.., binary.LittleEndian, &x) for an uint16 (two bytes) or an
\* int32 (four bytes)
FromLittleEndian(bs) ==
  IF Len(bs) = 2 THEN bs[1] + 256 * bs[2]
  ELSE bs[1] + 256 * bs[2] + 65536 * bs[3]
         + 16777216 * (IF bs[4] >= 128 THEN bs[4] - 256 ELSE bs[4])

(***************************************************************************)
(* lzhuf.Writer                                                            *)
(***************************************************************************)

NewWriter(crc16) ==
  [z |-> newLZHUFF, crc16 |-> crc16, buf |-> << >>, putbuf |-> 0, putlen |-> 0,
   len |-> 0, r |-> N - F, s |-> 0, lastMatchLength |-> 0, preFilled |-> FALSE,
   fileSize |-> 0]

\* putCode(l, c): l bits of c go out.  putbuf is kept to its low 16 bits:
\* they are the only ones written, and no operation moves a higher bit down.
putCode(w, l, c) ==
  LET Put2(putbuf, putlen) ==
        IF putlen < 8
        THEN [w EXCEPT !.putbuf = putbuf, !.putlen = putlen]
        ELSE IF putlen - 8 >= 8
        THEN [w EXCEPT !.buf = Append(Append(@, (putbuf \div 256) % 256), putbuf % 256),
                       !.putlen = putlen - 16,
                       !.putbuf = Shl16(c, l - (putlen - 16))]
        ELSE [w EXCEPT !.buf = Append(@, (putbuf \div 256) % 256),
                       !.putlen = putlen - 8,
                       !.putbuf = Shl16(putbuf, 8)]
  IN  Put2(Or16(w.putbuf, Shr(c, w.putlen) % 65536), w.putlen + l)

\* encodeChar(c): the walk from the leaf to the root collects the bits in i
\* and counts them in j; k is the node.
encodeChar(w, c) ==
  LET RECURSIVE CodeWalk(_, _, _)
      CodeWalk(i, j, k) ==
        LET i1 == (i \div 2) + (IF k % 2 # 0 THEN 32768 ELSE 0)
            k1 == At("prnt", w.z, k)
        IN  IF k1 = R THEN [i |-> i1, j |-> j + 1] ELSE CodeWalk(i1, j + 1, k1)
      Counted(w1) == [w1 EXCEPT !.z = update(w1.z, c)]
      Coded(code) == Counted(putCode(w, code.j, code.i))
  IN  Coded(CodeWalk(0, 0, At("prnt", w.z, c + T)))

encodePosition(w, c) ==
  putCode(putCode(w, PLen(Shr(c, 6)), PCode(Shr(c, 6)) * 256), 6, (c % 64) * 1024)

MatchSymbolShort(matchLength) == 254 - THRESHOLD + matchLength

\* uint(255 - _THRESHOLD + w.z.matchLength)
MatchSymbol(matchLength) == 255 - THRESHOLD + matchLength

encode(w) ==
  LET Position(w1) == encodePosition(w1, w1.z.matchPosition)
      Coded(ml) ==
        IF ml <= THRESHOLD
        THEN [encodeChar([w EXCEPT !.z.matchLength = 1], At("text", w.z, w.r))
                EXCEPT !.lastMatchLength = 1]
        ELSE [Position(encodeChar([w EXCEPT !.z.matchLength = ml], MatchSymbol(ml)))
                EXCEPT !.lastMatchLength = ml]
  IN  IF w.len = 0 THEN w
      ELSE Coded(IF w.z.matchLength > w.len THEN w.len ELSE w.z.matchLength)

\* advance(c): hasC is c != nil
advance(w, hasC, c) ==
  LET Add(w0)     == IF hasC
                     THEN [w0 EXCEPT !.z.text = IF w0.s < F - 1
                                                THEN Put(Put(@, w0.s, c), w0.s + N, c)
                                                ELSE Put(@, w0.s, c),
                                     !.len = @ + 1]
                     ELSE w0
      Process(w1) == [w1 EXCEPT !.z = InsertNode(w1.z, w1.r), !.lastMatchLength = @ - 1]
      Emit(w2)    == IF w2.lastMatchLength = 0 THEN encode(w2) ELSE w2
      Shift(w3)   == [w3 EXCEPT !.z = DeleteNode(w3.z, w3.s),
                                !.s = WrapN(w3.s + 1),
                                !.r = WrapN(w3.r + 1),
                                !.len = @ - 1]
  IN  Shift(Emit(Process(Add(w))))

\* Write(p): each byte goes into the lookahead buffer until it is full, and
\* through advance after that.
Write(w0, p) ==
  LET Fill(w, c)   == [w EXCEPT !.z.text = Put(@, w.r + w.len, c),
                                !.fileSize = @ + 1,
                                !.len = @ + 1]
      Filled(w1)   == [w1 EXCEPT !.z = InsertNode(w1.z, w1.r - w1.len),
                                 !.lastMatchLength = 1,
                                 !.preFilled = (w1.len = F)]
      WriteByte(w, c) ==
        IF ~w.preFilled THEN Filled(Fill(w, c))
        ELSE [advance(w, TRUE, c) EXCEPT !.fileSize = @ + 1]
      RECURSIVE WriteFrom(_, _)
      WriteFrom(w, n) == IF n > Len(p) THEN w ELSE WriteFrom(WriteByte(w, p[n]), n + 1)
  IN  WriteFrom(w0, 1)

encodeEnd(w) ==
  IF w.putlen = 0 THEN w ELSE [w EXCEPT !.buf = Append(@, (w.putbuf \div 256) % 256)]

\* Close(): the writer after it, and the bytes that reached the underlying
\* writer.
Close(w) ==
  LET RECURSIVE Drain(_)
      Drain(x) == IF x.len > 0 THEN Drain(advance(x, FALSE, 0)) ELSE x
      Sum(w1, data) == IF w1.crc16 THEN LittleEndian(crc(data), 2) ELSE << >>
      Flushed(w1) ==
        [w |-> w1,
         out |-> Sum(w1, LittleEndian(w1.fileSize, 4) \o w1.buf)
                 \o LittleEndian(w1.fileSize, 4) \o w1.buf]
  IN  Flushed(encodeEnd(encode(Drain(w))))

(***************************************************************************)
(* lzhuf.Reader                                                            *)
(***************************************************************************)

\* The bit reader: in is what the underlying reader holds, next the index
\* of the byte it returns next, bits the bits of the last byte not yet
\* given out, seen the bytes that passed the TeeReader into the CRC writer,
\* rerr the latched error.
\* ReadBits(1): a byte is fetched when no bit is left; at the end of the
\* input the error is latched and the bit is 0.
getBit(d) ==
  IF d.bits # << >>
  THEN [d |-> [d EXCEPT !.bits = Tail(@)], c |-> Head(d.bits)]
  ELSE IF d.rerr # "" \/ d.next > Len(d.in)
  THEN [d |-> [d EXCEPT !.rerr = IF @ = "" THEN "EOF" ELSE @], c |-> 0]
  ELSE LET b == d.in[d.next]
           all == [k \in 1..8 |-> (b \div (2 ^ (8 - k))) % 2]
       IN  [d |-> [d EXCEPT !.bits = Tail(all), !.next = @ + 1, !.seen = Append(@, b)],
            c |-> Head(all)]

\* n bits behind the bits acc, the first read being the highest
RECURSIVE getBits(_, _, _)
getBits(d, n, acc) ==
  IF n = 0 THEN [d |-> d, c |-> acc]
  ELSE LET g == getBit(d) IN getBits(g.d, n - 1, 2 * acc + g.c)

\* NewReader(r, crc16) over the bytes rd: the reader and the error returned.
\* The window starts at d.state.r = _N - _R.
NewReader(rd, crc16) ==
  LET hl == IF crc16 THEN 2 ELSE 0
      d0 == [z |-> newLZHUFF, crc16 |-> crc16, hcrc |-> 0, hsize |-> 0, pos |-> 0,
             r |-> N - R, sbuf |-> << >>, err |-> "", in |-> rd, next |-> 1,
             bits |-> << >>, seen |-> << >>, rerr |-> ""]
  IN  IF crc16 /\ Len(rd) < 2
      THEN [d |-> d0, err |-> IF Len(rd) = 0 THEN "EOF" ELSE "unexpected EOF", nil |-> TRUE]
      ELSE IF Len(rd) < hl + 4
      THEN [d |-> [d0 EXCEPT !.hcrc = IF crc16 THEN FromLittleEndian(SubSeq(rd, 1, 2)) ELSE 0,
                             !.next = Len(rd) + 1,
                             !.seen = SubSeq(rd, hl + 1, Len(rd))],
            err |-> IF Len(rd) = hl THEN "EOF" ELSE "unexpected EOF", nil |-> FALSE]
      ELSE [d |-> [d0 EXCEPT !.hcrc = IF crc16 THEN FromLittleEndian(SubSeq(rd, 1, 2)) ELSE 0,
                             !.hsize = FromLittleEndian(SubSeq(rd, hl + 1, hl + 4)),
                             !.next = hl + 5,
                             !.seen = SubSeq(rd, hl + 1, hl + 4)],
            err |-> "", nil |-> FALSE]

\* advanceState()
advanceState(d) == [d EXCEPT !.r = WrapN(@ + 1), !.pos = @ + 1]

\* decodeChar(): the walk from the root to a leaf, a bit for each node.
decodeChar(d0) ==
  LET RECURSIVE LeafWalk(_, _)
      LeafWalk(d, c) ==
        IF c >= T THEN [d |-> d, c |-> c]
        ELSE LET g == getBit(d) IN LeafWalk(g.d, At("son", d.z, c + g.c))
      Counted(leaf) == [d |-> [leaf.d EXCEPT !.z = update(@, leaf.c - T)], c |-> leaf.c - T]
  IN  Counted(LeafWalk(d0, At("son", d0.z, R)))

decodePosition(d) ==
  LET Lower(first, rest) == [d |-> rest.d, c |-> DCode(first.c) * 64 + (rest.c % 64)]
      Upper(first) == Lower(first, getBits(first.d, DLen(first.c) - 2, first.c))
  IN  Upper(getBits(d, 8, 0))

MatchLengthShort(c) == c - 256 + THRESHOLD

\* j = c - 255 + _Threshold
MatchLength(c) == c - 255 + THRESHOLD

\* Read(p) with len(p) = plen: the reader after it, the bytes put into p,
\* and the error returned ("" for nil).  The bytes of a match are copied
\* from the window at i, into p while it has room and into state.buf after
\* that; CopyMatch copies the bytes k to j - 1 in this order, the first half
\* before the second (p never holds more than plen bytes).
Read(d0, plen) ==
  LET RECURSIVE CopyMatch(_, _, _, _, _)
      CopyMatch(d, out, i, k, j) ==
        IF k >= j THEN [d |-> d, out |-> out]
        ELSE IF j - k > 1
        THEN LET first == CopyMatch(d, out, i, k, k + (j - k) \div 2)
             IN  IF Len(first.out) <= plen
                 THEN CopyMatch(first.d, first.out, i, k + (j - k) \div 2, j)
                 ELSE first
        ELSE LET c == At("text", d.z, WrapN(i + k))
                 e == advanceState([d EXCEPT !.z.text = Put(@, d.r, c)])
             IN  IF Len(out) < plen
                 THEN [d |-> e, out |-> Append(out, c)]
                 ELSE [d |-> [e EXCEPT !.sbuf = Append(@, c)], out |-> out]
      RECURSIVE ReadLoop(_, _)
      ReadLoop(d, out) ==
        IF ~(Len(out) < plen /\ d.rerr = "" /\ d.pos < d.hsize)
        THEN [d |-> d, out |-> out]
        ELSE LET Copied(cp) == ReadLoop(cp.d, cp.out)
                 Match(pos, j) ==
                   Copied(CopyMatch(pos.d, out, WrapN(pos.d.r - pos.c - 1 + N), 0, j))
                 Symbol(sym) ==
                   IF sym.c < 256
                   THEN ReadLoop(advanceState([sym.d EXCEPT !.z.text = Put(@, sym.d.r, sym.c)]),
                                 Append(out, sym.c))
                   ELSE Match(decodePosition(sym.d), MatchLength(sym.c))
             IN  Symbol(decodeChar(d))
      Decoded(res) == [d |-> res.d, out |-> res.out, err |-> ""]
      Buffered(n)  == Decoded(ReadLoop([d0 EXCEPT !.sbuf = Drop(@, n)], SubSeq(d0.sbuf, 1, n)))
      Failed(derr) == IF derr # "" THEN [d |-> [d0 EXCEPT !.err = derr], out |-> << >>, err |-> derr]
                      ELSE Buffered(Min(plen, Len(d0.sbuf)))
  IN  IF ~(d0.rerr = "EOF" /\ d0.pos < d0.hsize) /\ d0.rerr = ""
         /\ d0.pos = d0.hsize /\ d0.sbuf = << >>
      THEN [d |-> d0, out |-> << >>, err |-> "EOF"]
      ELSE Failed(IF d0.rerr = "EOF" /\ d0.pos < d0.hsize THEN "unexpected EOF"
                  ELSE IF d0.rerr # "" THEN d0.rerr
                  ELSE d0.err)

\* A Close that does not look at the error of the Reads.
ReaderCloseUnlatched(d) ==
  IF d.rerr # "" THEN d.rerr
  ELSE IF d.crc16 /\ d.hcrc # crc(d.seen) THEN "lzhuf: invalid checksum"
  ELSE IF d.hsize # d.pos - Len(d.sbuf) THEN "lzhuf: invalid checksum"
  ELSE ""

\* Close() of the Reader: the error returned ("" for nil).
ReaderClose(d) ==
  IF d.err # "" THEN d.err
  ELSE IF d.rerr # "" THEN d.rerr
  ELSE IF d.crc16 /\ d.hcrc # crc(d.seen) THEN "lzhuf: invalid checksum"
  ELSE IF d.hsize # d.pos - Len(d.sbuf) THEN "lzhuf: invalid checksum"
  ELSE ""

(***************************************************************************)
(* SpecLZ: a Writer is given a byte sequence and closed, and a Reader      *)
(* reads its output to the end and is closed                               *)
(***************************************************************************)

MaxLzLen   == 4     \* longest input
MaxReadLen == 2     \* longest buffer handed to Read

\* The bytes of the inputs: the byte the window is filled with, the zero
\* byte of the unwritten part of textBuf, and a letter.
LzBytes == {0, 32, Asc["A"]}

\* The inputs: the sequences of at most MaxLzLen of these bytes
LzInputs ==
  LET RECURSIVE OfLen(_)
      OfLen(n) == IF n = 0 THEN {<< >>}
                  ELSE {Append(s, b) : s \in OfLen(n - 1), b \in LzBytes}
  IN  UNION {OfLen(n) : n \in 0..MaxLzLen}

LzInit ==
  /\ MoreIdle
  /\ AnsIdle
  /\ OutIdle
  /\ FrIdle
  /\ InIdle
  /\ XIdle
  /\ remoteNoMsgs = FALSE
  /\ lzIn \in LzInputs
  /\ lzCrc16 \in BOOLEAN
  /\ lzPc = "write"
  /\ lzW = NewWriter(lzCrc16)
  /\ lzFed = 0
  /\ lzOut = << >>
  /\ lzD = << >>
  /\ lzGot = << >>
  /\ lzErr = ""

LzUnchangedOthers == UNCHANGED << ansVars, sessVars, outVars, frVars, inVars, xVars, moreVars >>

\* Writer.Write with the next k bytes of the input
LzWrite ==
  /\ lzPc = "write"
  /\ \E k \in 1..(Len(lzIn) - lzFed) :
       /\ lzW' = Write(lzW, SubSeq(lzIn, lzFed + 1, lzFed + k))
       /\ lzFed' = lzFed + k
  /\ UNCHANGED << lzIn, lzCrc16, lzPc, lzOut, lzD, lzGot, lzErr >>
  /\ LzUnchangedOthers

\* Writer.Close after all of the input was written
LzClose ==
  /\ lzPc = "write"
  /\ lzFed = Len(lzIn)
  /\ \E res \in {Close(lzW)} :
       /\ lzW' = res.w
       /\ lzOut' = res.out
  /\ lzPc' = "written"
  /\ UNCHANGED << lzIn, lzCrc16, lzFed, lzD, lzGot, lzErr >>
  /\ LzUnchangedOthers

\* NewReader over the output of the Writer
LzNewReader ==
  /\ lzPc = "written"
  /\ \E res \in {NewReader(lzOut, lzCrc16)} :
       /\ lzD' = res.d
       /\ lzErr' = res.err
       /\ lzPc' = IF res.err = "" THEN "reading" ELSE "failed"
  /\ UNCHANGED << lzIn, lzCrc16, lzW, lzFed, lzOut, lzGot >>
  /\ LzUnchangedOthers

\* Reader.Read into a buffer of plen bytes; io.EOF ends the reading
LzRead ==
  /\ lzPc = "reading"
  /\ \E plen \in 1..MaxReadLen :
       \E res \in {Read(lzD, plen)} :
         /\ lzD' = res.d
         /\ lzGot' = lzGot \o res.out
         /\ lzPc' = IF res.err = "" THEN "reading"
                    ELSE IF res.err = "EOF" THEN "eof" ELSE "failed"
         /\ lzErr' = IF res.err = "EOF" THEN "" ELSE res.err
  /\ UNCHANGED << lzIn, lzCrc16, lzW, lzFed, lzOut >>
  /\ LzUnchangedOthers

\* Reader.Close after everything was read
LzReaderClose ==
  /\ lzPc = "eof"
  /\ lzErr' = ReaderClose(lzD)
  /\ lzPc' = "closed"
  /\ UNCHANGED << lzIn, lzCrc16, lzW, lzFed, lzOut, lzD, lzGot >>
  /\ LzUnchangedOthers

LzNext ==
  \/ LzWrite
  \/ LzClose
  \/ LzNewReader
  \/ LzRead
  \/ LzReaderClose

SpecLZ == LzInit /\ [][LzNext]_vars

Sides == {"client", "master"}

Peer(s) == IF s = "client" THEN "master" ELSE "client"

\* NewSession(mycall, targetcall, locator, h) and IsMaster(master), with the
\* mailbox behind h: its outbound proposals and the MIDs it holds already.
NewSession(mycall, targetcall, master, handler, box, has) ==
  [pc |-> IF master THEN "hs_write" ELSE "hs_read",
   mycall |-> mycall, targetcall |-> targetcall, master |-> master,
   handler |-> handler, outbox |-> box, has |-> has, deferred |-> {},
   remoteSID |-> << >>, remoteNoMsgs |-> FALSE, pendingMessages |-> << >>,
   outbound |-> << >>, sent |-> << >>, proposals |-> << >>, ourChecksum |-> 0,
   fetch |-> 0, err |-> "", quitSent |-> FALSE, quitReceived |-> FALSE,
   hSetSent |-> {}, trafficSent |-> {}, trafficReceived |-> << >>]

\* s.outbound(): nothing without a handler, else the outbound proposals of the
\* mailbox that were not deferred in this session, in sorted order.
outbound(sess) ==
  IF ~sess.handler THEN << >>
  ELSE SelectSeq(sess.outbox, LAMBDA p : p.mid \notin sess.deferred)

HandshakeLinesSIDFirst(sess) ==
  LET sid      == Str(<<"[", "w", "l", "2", "k", "g", "o", "-", "0", ".", "1", "a", "-",
                        "B", "2", "F", "H", "M", "$", "]">>)
      greeting == Str(<<";", " ">>) \o sess.targetcall \o Str(<<" ", "D", "E", " ">>)
                    \o sess.mycall \o Str(<<" ", "(", "J", "O", "3", "9", "E", "Q", ")">>)
  IN  IF sess.master
      THEN << sid \o << CR >>, greeting \o Str(<<">">>) \o << CR >> >>
      ELSE << sid \o << CR >>,
              Str(<<";", "F", "W", ":", " ">>) \o sess.mycall \o << CR >>,
              greeting \o << CR >> >>

\* The lines of the handshake a session writes: the master its SID and a line
\* that ends in the prompt, the other side its forwarders, its SID and the
\* greeting comment.
HandshakeLines(sess) ==
  LET sid      == Str(<<"[", "w", "l", "2", "k", "g", "o", "-", "0", ".", "1", "a", "-",
                        "B", "2", "F", "H", "M", "$", "]">>)
      greeting == Str(<<";", " ">>) \o sess.targetcall \o Str(<<" ", "D", "E", " ">>)
                    \o sess.mycall \o Str(<<" ", "(", "J", "O", "3", "9", "E", "Q", ")">>)
  IN  IF sess.master
      THEN << sid \o << CR >>, greeting \o Str(<<">">>) \o << CR >> >>
      ELSE << Str(<<";", "F", "W", ":", " ">>) \o sess.mycall \o << CR >>,
              sid \o << CR >>,
              greeting \o << CR >> >>

\* A write as nextLine returns it: without the CR.
Line(item) ==
  IF Len(item) > 0 /\ item[Len(item)] = CR THEN SubSeq(item, 1, Len(item) - 1) ELSE item

\* What the side can read without waiting: its reader's buffer, then the
\* write of the peer that waits in the pipe.
Avail(s) == xRd[s] \o xPipe[s]

\* The side is not inside a Write: a Write on the pipe returns when the peer
\* has read it.
Unblocked(s) == xWq[s] = << >> /\ xPipe[Peer(s)] = << >>

\* Exchange has returned on side s.
Returned(s) == xSess[s].pc = "done" /\ Unblocked(s)

XUnchangedOthers == UNCHANGED << ansVars, sessVars, outVars, frVars, inVars, lzVars, moreVars >>

\* A step of side s that reads nothing: the session becomes sess and the
\* writes are queued.
Step(s, sess, writes) ==
  /\ xSess' = [xSess EXCEPT ![s] = sess]
  /\ xWq' = [xWq EXCEPT ![s] = writes]
  /\ xWire' = [xWire EXCEPT ![s] = @ \o writes]
  /\ UNCHANGED << xRd, xPipe >>
  /\ XUnchangedOthers

\* A step of side s that fills its reader from the pipe and leaves rd unread.
ReadStep(s, sess, writes, rd) ==
  /\ xSess' = [xSess EXCEPT ![s] = sess]
  /\ xWq' = [xWq EXCEPT ![s] = writes]
  /\ xWire' = [xWire EXCEPT ![s] = @ \o writes]
  /\ xRd' = [xRd EXCEPT ![s] = rd]
  /\ xPipe' = [xPipe EXCEPT ![s] = << >>]
  /\ XUnchangedOthers

\* Exchange returns err.
Failed(sess, err) == [sess EXCEPT !.pc = "done", !.err = err]

\* One Write of the queue enters the pipe.
PipeWrite(s) ==
  /\ xWq[s] # << >>
  /\ xPipe[Peer(s)] = << >>
  /\ xPipe' = [xPipe EXCEPT ![Peer(s)] = << Head(xWq[s]) >>]
  /\ xWq' = [xWq EXCEPT ![s] = Tail(@)]
  /\ UNCHANGED << xSess, xRd, xWire >>
  /\ XUnchangedOthers

\* handshake, the writing half: the master writes first and then reads, the
\* other side writes after it read the prompt and then takes the first turn.
WriteHandshake(s) ==
  /\ xSess[s].pc = "hs_write"
  /\ Unblocked(s)
  /\ Step(s, [xSess[s] EXCEPT !.pc = IF xSess[s].master THEN "hs_read" ELSE "out"],
          HandshakeLines(xSess[s]))

\* handshake, the reading half, one line: a line with [ is the SID of the
\* remote; the master reads up to the SID and then waits for the first turn of
\* the remote; the other side reads up to a line that ends in > and needs the
\* SID by then; any other line is passed over.
ReadHandshake(s) ==
  /\ xSess[s].pc = "hs_read"
  /\ Unblocked(s)
  /\ Avail(s) # << >>
  /\ LET Scan(sess, line) ==
           LET hasSID  == \E i \in 1..Len(line) : line[i] = Asc["["]
               prompt  == Len(line) > 0 /\ line[Len(line)] = Asc[">"]
               withSID == IF hasSID THEN [sess EXCEPT !.remoteSID = line] ELSE sess
           IN  IF sess.master
               THEN IF hasSID THEN [withSID EXCEPT !.pc = "in"] ELSE sess
               ELSE IF ~prompt THEN withSID
               ELSE IF withSID.remoteSID = << >> THEN Failed(sess, "No sid in handshake")
               ELSE [withSID EXCEPT !.pc = "hs_write"]
     IN  ReadStep(s, Scan(xSess[s], Line(Head(Avail(s)))), << >>, Tail(Avail(s)))

TurnoverAfterBlock(sess, n) ==
  IF sess.remoteNoMsgs /\ Len(sess.sent) = 0
  THEN [writes |-> << Str(<<"F", "Q">>) \o << CR >> >>,
        sess   |-> [sess EXCEPT !.pc = "done", !.quitSent = TRUE]]
  ELSE [writes |-> << Str(<<"F", "F">>) \o << CR >> >>,
        sess   |-> [sess EXCEPT !.pc = "out_peek"]]

TurnoverQuitsFirst(sess, n) ==
  IF n > 0 THEN [writes |-> << >>, sess |-> [sess EXCEPT !.pc = "out_peek"]]
  ELSE [writes |-> << Str(<<"F", "Q">>) \o << CR >> >>,
        sess   |-> [sess EXCEPT !.pc = "done", !.quitSent = TRUE]]

\* The turnover switch of handleOutbound in a turn with n outbound proposals:
\* the write it makes and the session after it.
Turnover(sess, n) ==
  IF n > 0 THEN [writes |-> << >>, sess |-> [sess EXCEPT !.pc = "out_peek"]]
  ELSE IF sess.remoteNoMsgs /\ Len(sess.sent) = 0
  THEN [writes |-> << Str(<<"F", "Q">>) \o << CR >> >>,
        sess   |-> [sess EXCEPT !.pc = "done", !.quitSent = TRUE]]
  ELSE [writes |-> << Str(<<"F", "F">>) \o << CR >> >>,
        sess   |-> [sess EXCEPT !.pc = "out_peek"]]

\* handleOutbound up to the first read: the block is proposed, or, with
\* nothing to propose, FF or FQ is written.
ProposeOrTurnover(s) ==
  /\ xSess[s].pc = "out"
  /\ Unblocked(s)
  /\ LET Start(sess, block) ==
           IF Len(block) > 0
           THEN Step(s, [sess EXCEPT !.pc = "out_answer", !.outbound = block, !.sent = << >>],
                     BlockWrites(block))
           ELSE LET Turn(t) == Step(s, t.sess, t.writes)
                IN  Turn(Turnover([sess EXCEPT !.outbound = << >>, !.sent = << >>], 0))
     IN  Start(xSess[s], TruncateBlock(outbound(xSess[s])))

\* The loop of sendOutbound over the answered block: the deferred MIDs, the
\* map sent and the body writes.
RECURSIVE SendLoop(_, _, _)
SendLoop(props, i, acc) ==
  IF i > Len(props) THEN acc
  ELSE SendLoop(props, i + 1,
         CASE props[i].answer = Defer ->
                [acc EXCEPT !.deferred = @ \cup {props[i].mid}]
           [] props[i].answer = Reject ->
                [acc EXCEPT !.sent = Append(@, << props[i].mid, TRUE >>)]
           [] props[i].answer = Accept ->
                [acc EXCEPT !.sent = Append(@, << props[i].mid, FALSE >>),
                            !.writes = Append(@, Concat(FrameWrites(props[i])))]
           [] OTHER -> acc)

\* The mailbox after SetSent(mid, rejected) for the MIDs of mids: they leave
\* the outbox.
WithoutMids(box, mids) == SelectSeq(box, LAMBDA p : p.mid \notin mids)

\* sendOutbound from the answer line on, and handleOutbound up to Peek: a
\* comment is passed over; the FS line is parsed, the bodies of the accepted
\* proposals are written, the rejected MIDs are reported and turnover is
\* implied.
ReadAnswer(s) ==
  /\ xSess[s].pc = "out_answer"
  /\ Unblocked(s)
  /\ Avail(s) # << >>
  /\ LET Sent(sess, acc) ==
           LET rejected == { mid \in SentMids(acc.sent) : SentRejected(acc.sent, mid) }
           IN  ReadStep(s,
                 [Turnover(sess, Len(sess.outbound)).sess EXCEPT
                              !.deferred = @ \cup acc.deferred,
                              !.sent = SelectSeq(acc.sent, LAMBDA e : e[1] \notin rejected),
                              !.hSetSent = @ \cup { << mid, TRUE >> : mid \in rejected },
                              !.outbox = WithoutMids(@, rejected)],
                 acc.writes \o Turnover(sess, Len(sess.outbound)).writes, Tail(Avail(s)))
         Parsed(sess, res) ==
           IF res.err # ""
           THEN ReadStep(s, Failed(sess, "Unable to parse proposal answer"), << >>,
                         Tail(Avail(s)))
           ELSE Sent([sess EXCEPT !.outbound = res.props],
                     SendLoop(res.props, 1, [deferred |-> {}, sent |-> << >>, writes |-> << >>]))
         Answer(sess, line) ==
           IF HasPrefix(line, Str(<<"F", "S", " ">>))
           THEN Parsed(sess, parseProposalAnswer(line, sess.outbound))
           ELSE IF HasPrefix(line, Str(<<";">>))
           THEN ReadStep(s, sess, << >>, Tail(Avail(s)))
           ELSE ReadStep(s, Failed(sess, "Expected proposal answer from remote"), << >>,
                         Tail(Avail(s)))
     IN  Answer(xSess[s], Line(Head(Avail(s))))

\* handleOutbound from Peek on: with F or ; as the first byte the sent MIDs
\* are reported and recorded and the turn passes; any other first byte is an
\* error, and its line is read.
PeekFirstByte(s) ==
  /\ xSess[s].pc = "out_peek"
  /\ Unblocked(s)
  /\ Avail(s) # << >>
  /\ LET Peeked(sess, item) ==
           IF item[1] \in {Asc["F"], Asc[";"]}
           THEN ReadStep(s,
                  [sess EXCEPT !.pc = "in",
                               !.hSetSent = @ \cup { << mid, FALSE >> : mid \in SentMids(sess.sent) },
                               !.trafficSent = @ \cup SentMids(sess.sent),
                               !.outbox = WithoutMids(@, SentMids(sess.sent)),
                               !.proposals = << >>, !.ourChecksum = 0],
                  << >>, Avail(s))
           ELSE ReadStep(s, Failed(sess, "Unexpected response"), << >>, Tail(Avail(s)))
     IN  Peeked(xSess[s], Head(Avail(s)))

\* GetInboundAnswer of the mailbox: a message it holds is rejected, any
\* other is accepted.
GetInboundAnswer(sess, prop) == IF prop.mid \in sess.has THEN Reject ELSE Accept

\* The position of the first accepted proposal after position i; 0 when there
\* is none.
NextAccepted(proposals, i) ==
  LET idx == { j \in (i + 1)..Len(proposals) : Fetched(proposals[j]) }
  IN  IF idx = {} THEN 0 ELSE CHOOSE j \in idx : \A k \in idx : j <= k

InboundNeverQuits(sess) == [sess EXCEPT !.pc = "out"]

\* handleInbound returns nil: the turn passes, or the exchange is done when the
\* remote quit.
InboundReturns(sess) ==
  [sess EXCEPT !.pc = IF sess.quitReceived THEN "done" ELSE "out"]

\* handleInbound, one line of its read loop.
ReadLine(s) ==
  /\ xSess[s].pc = "in"
  /\ Unblocked(s)
  /\ Avail(s) # << >>
  /\ LET Next(sess, writes) == ReadStep(s, sess, writes, Tail(Avail(s)))
         Answered(sess, props) ==
           Next(IF NextAccepted(props, 0) = 0
                THEN InboundReturns([sess EXCEPT !.proposals = props])
                ELSE [sess EXCEPT !.proposals = props, !.pc = "in_body",
                                  !.fetch = NextAccepted(props, 0)],
                << AnswerWrite(props) >>)
         Answers(sess) ==
           LET un == Unanswered(sess.proposals, sess.handler)
           IN  [k \in 1..Len(un) |-> GetInboundAnswer(sess, sess.proposals[un[k]])]
         Prompt(sess, line) ==
           IF ~PromptMatches(ParseHex(Drop(line, 3)), NegLow8(sess.ourChecksum))
           THEN Next(Failed(sess, "Checksum error"), << >>)
           ELSE IF Len(sess.proposals) = 0
           THEN Next(InboundReturns([sess EXCEPT !.remoteNoMsgs = TRUE]), << >>)
           ELSE Answered([sess EXCEPT !.remoteNoMsgs = FALSE],
                         AnsweredProposals(sess.proposals, sess.handler, Answers(sess)))
         Proposal(sess, line, res) ==
           IF res.err # ""
           THEN Next(Failed(sess, res.err), << >>)
           ELSE Next([sess EXCEPT !.ourChecksum = @ + LineSum(line),
                                  !.proposals = Append(@, AttachPending(res.prop,
                                                                        sess.pendingMessages))],
                     << >>)
         Handle(sess, line) ==
           IF HasPrefix(line, Str(<<";", "P", "M">>))
           THEN Next([sess EXCEPT !.pendingMessages = StorePending(@, line)], << >>)
           ELSE IF line = << >> \/ line[1] = Asc[";"]
           THEN Next(sess, << >>)
           ELSE IF Len(line) < 2 \/ line[1] # Asc["F"]
           THEN Next(Failed(sess, "Got unexpected protocol line"), << >>)
           ELSE IF line[2] \in {Asc["A"], Asc["B"], Asc["C"], Asc["D"]}
           THEN Proposal(sess, line, parseProposal(line))
           ELSE IF line[2] = Asc["F"]
           THEN Next(InboundReturns([sess EXCEPT !.remoteNoMsgs = TRUE]), << >>)
           ELSE IF line[2] = Asc["Q"]
           THEN IF QuitWhilePending(TRUE)
                THEN Next(Failed([sess EXCEPT !.quitReceived = TRUE],
                                 "Got quit command when inbound proposals were pending"),
                          << >>)
                ELSE Next(InboundReturns([sess EXCEPT !.quitReceived = TRUE]), << >>)
           ELSE IF line[2] = Asc[">"]
           THEN Prompt(sess, line)
           ELSE Next(Failed(sess, "Unknown protocol command"), << >>)
     IN  Handle(xSess[s], Line(Head(Avail(s))))

\* handleInbound, one round of its fetch loop for an accepted proposal: the
\* body is read, the message is handed to ProcessInbound, which stores it,
\* and the MID is recorded.
ReadBody(s) ==
  /\ xSess[s].pc = "in_body"
  /\ Unblocked(s)
  /\ Avail(s) # << >>
  /\ LET Fetch(sess, i, res) ==
           IF res.err # ""
           THEN ReadStep(s, Failed(sess, res.err), << >>, Tail(Avail(s)))
           ELSE LET got == [sess EXCEPT !.proposals[i].compressedData = res.data,
                                        !.proposals[i].title = res.title,
                                        !.has = @ \cup {sess.proposals[i].mid},
                                        !.trafficReceived = Append(@, sess.proposals[i].mid)]
                IN  ReadStep(s,
                      IF NextAccepted(sess.proposals, i) = 0 THEN InboundReturns(got)
                      ELSE [got EXCEPT !.fetch = NextAccepted(sess.proposals, i)],
                      << >>, Tail(Avail(s)))
     IN  Fetch(xSess[s], xSess[s].fetch,
               readCompressed(Head(Avail(s)), xSess[s].proposals[xSess[s].fetch]))

(***************************************************************************)
(* SpecPair: Exchange of a master and a client session                     *)
(***************************************************************************)

MaxPairQueue   == 6     \* longest outbound queue of the master
MaxClientQueue == 1     \* longest outbound queue of the client

\* The mailboxes of a session: none (the handler is nil), one that holds no
\* message of the remote, one that holds every message of the remote.
Mailboxes == {"none", "empty", "full"}

PairInit ==
  /\ MoreIdle
  /\ AnsIdle
  /\ OutIdle
  /\ FrIdle
  /\ InIdle
  /\ LzIdle
  /\ remoteNoMsgs = FALSE
  /\ \E n \in 0..MaxPairQueue, k \in 0..MaxClientQueue, mbox, cbox \in Mailboxes :
       LET ofMaster == [i \in 1..n |-> CatalogProposal(i)]
           ofClient == [i \in 1..k |-> CatalogProposal(MaxPairQueue + 3 + i)]
           mids(q)  == { q[i].mid : i \in 1..Len(q) }
       IN  /\ mbox = "none" => n = 0
           /\ cbox = "none" => k = 0
           /\ xSess = [s \in Sides |->
                 IF s = "master"
                 THEN NewSession(Str(<<"N", "0", "C", "A", "L", "L">>),
                                 Str(<<"L", "A", "5", "N", "T", "A">>), TRUE, mbox # "none",
                                 ofMaster, IF mbox = "full" THEN mids(ofClient) ELSE {})
                 ELSE NewSession(Str(<<"L", "A", "5", "N", "T", "A">>),
                                 Str(<<"N", "0", "C", "A", "L", "L">>), FALSE, cbox # "none",
                                 ofClient, IF cbox = "full" THEN mids(ofMaster) ELSE {})]
  /\ xPipe = [s \in Sides |-> << >>]
  /\ xRd = [s \in Sides |-> << >>]
  /\ xWq = [s \in Sides |-> << >>]
  /\ xWire = [s \in Sides |-> << >>]

\* A step of the goroutine that runs Exchange on side s.
SessionStep(s) ==
  \/ PipeWrite(s)
  \/ WriteHandshake(s)
  \/ ReadHandshake(s)
  \/ ProposeOrTurnover(s)
  \/ ReadAnswer(s)
  \/ PeekFirstByte(s)
  \/ ReadLine(s)
  \/ ReadBody(s)

PairNext == \E s \in Sides : SessionStep(s)

SpecPair == PairInit /\ [][PairNext]_vars

(***************************************************************************)
(* SpecP2P: Exchange of a master and a client session that have nothing    *)
(* outbound                                                                *)
(***************************************************************************)

P2PInit ==
  /\ MoreIdle
  /\ AnsIdle
  /\ OutIdle
  /\ FrIdle
  /\ InIdle
  /\ LzIdle
  /\ remoteNoMsgs = FALSE
  /\ \E mbox, cbox \in Mailboxes :
       xSess = [s \in Sides |->
         IF s = "master"
         THEN NewSession(Str(<<"N", "0", "C", "A", "L", "L">>),
                         Str(<<"L", "A", "5", "N", "T", "A">>), TRUE, mbox # "none",
                         << >>, IF mbox = "full" THEN {Mid(1)} ELSE {})
         ELSE NewSession(Str(<<"L", "A", "5", "N", "T", "A">>),
                         Str(<<"N", "0", "C", "A", "L", "L">>), FALSE, cbox # "none",
                         << >>, IF cbox = "full" THEN {Mid(1)} ELSE {})]
  /\ xPipe = [s \in Sides |-> << >>]
  /\ xRd = [s \in Sides |-> << >>]
  /\ xWq = [s \in Sides |-> << >>]
  /\ xWire = [s \in Sides |-> << >>]

\* A step of the goroutine that runs Exchange on side s when no proposal is
\* made.
QuietStep(s) ==
  \/ PipeWrite(s)
  \/ WriteHandshake(s)
  \/ ReadHandshake(s)
  \/ ProposeOrTurnover(s)
  \/ PeekFirstByte(s)
  \/ ReadLine(s)

P2PNext == \E s \in Sides : QuietStep(s)

\* The two goroutines are scheduled fairly: a step that stays possible is
\* taken.
SpecP2P == P2PInit /\ [][P2PNext]_vars /\ \A s \in Sides : WF_vars(QuietStep(s))

(***************************************************************************)
(* SpecCMS: Exchange of a client session with a remote station that sends  *)
(* the lines of a CMS                                                      *)
(***************************************************************************)

MaxCmsLines == 6     \* lines the remote station sends

\* The lines of the banner of the remote station: its SID, a line of free
\* text, its prompt.
CmsBanner ==
  { Str(<<"[", "W", "L", "2", "K", "-", "2", ".", "8", ".", "4", ".", "8", "-",
          "B", "2", "F", "W", "I", "H", "J", "M", "$", "]">>),
    Str(<<"F", "o", "o", "b", "a", "r">>),
    Str(<<"T", "e", "s", "t", " ", "C", "M", "S", " ", ">">>) }

\* The lines of the remote station after its banner: a proposal and the end
\* of its block, FF, FQ, and answers to a proposal.
CmsLines ==
  { Str(<<"F", "C", " ", "E", "M", " ", "T", "J", "K", "Y", "E", "I", "M", "M", "H", "S",
          "R", "B", " ", "5", "2", "7", " ", "1", "2", "3", " ", "0">>),
    Str(<<"F", ">", " ", "3", "b">>),
    Str(<<"F", "F">>),
    Str(<<"F", "Q">>),
    Str(<<"F", "S", " ", "-">>),
    Str(<<"F", "S", " ", "+">>) }

CmsInit ==
  /\ MoreIdle
  /\ AnsIdle
  /\ OutIdle
  /\ FrIdle
  /\ InIdle
  /\ LzIdle
  /\ remoteNoMsgs = FALSE
  /\ \E k \in 0..MaxClientQueue, cbox \in {"none", "full"} :
       /\ cbox = "none" => k = 0
       /\ xSess = [s \in Sides |->
             IF s = "master" THEN [pc |-> "remote"]
             ELSE NewSession(Str(<<"L", "A", "5", "N", "T", "A">>),
                             Str(<<"L", "A", "1", "B", "-", "1", "0">>), FALSE, cbox # "none",
                             [i \in 1..k |-> CatalogProposal(i)],
                             IF cbox = "full"
                             THEN {Str(<<"T", "J", "K", "Y", "E", "I", "M", "M", "H", "S", "R", "B">>)}
                             ELSE {})]
  /\ xPipe = [s \in Sides |-> << >>]
  /\ xRd = [s \in Sides |-> << >>]
  /\ xWq = [s \in Sides |-> << >>]
  /\ xWire = [s \in Sides |-> << >>]

\* The remote station writes a line, of its banner until the client has
\* answered it; the write waits in the pipe until the client reads it.
RemoteWrites ==
  /\ xSess["client"].pc # "done"
  /\ xPipe["client"] = << >>
  /\ Len(xWire["master"]) < MaxCmsLines
  /\ \E line \in IF xWire["client"] = << >> THEN CmsBanner ELSE CmsLines :
       /\ xPipe' = [xPipe EXCEPT !["client"] = << line \o << CR >> >>]
       /\ xWire' = [xWire EXCEPT !["master"] = Append(@, line \o << CR >>)]
  /\ UNCHANGED << xSess, xRd, xWq >>
  /\ XUnchangedOthers

\* The remote station reads what the client wrote.
RemoteReads ==
  /\ xPipe["master"] # << >>
  /\ xPipe' = [xPipe EXCEPT !["master"] = << >>]
  /\ UNCHANGED << xSess, xRd, xWq, xWire >>
  /\ XUnchangedOthers

CmsNext ==
  \/ PipeWrite("client")
  \/ WriteHandshake("client")
  \/ ReadHandshake("client")
  \/ ProposeOrTurnover("client")
  \/ ReadAnswer("client")
  \/ PeekFirstByte("client")
  \/ ReadLine("client")
  \/ RemoteWrites
  \/ RemoteReads

SpecCMS == CmsInit /\ [][CmsNext]_vars

(***************************************************************************)
(* Properties of the exchange                                              *)
(***************************************************************************)

\* Side s is not waiting: a write of it can enter the pipe, or it has not
\* returned and, where it reads, there is something to read.
CanStep(s) ==
  \/ xWq[s] # << >> /\ xPipe[Peer(s)] = << >>
  \/ /\ Unblocked(s)
     /\ \/ xSess[s].pc \in {"hs_write", "out"}
        \/ xSess[s].pc \in {"hs_read", "out_answer", "out_peek", "in", "in_body"} /\ Avail(s) # << >>

\* Both sides have returned from Exchange without an error.
BothReturned ==
  \A s \in Sides : Returned(s) /\ xSess[s].err = ""

\* What the master writes when it has the first six messages of the catalogue
\* and every proposal is rejected: its handshake, a block of five, a block of
\* one, FQ.
SixRejectedWire ==
  HandshakeLines(NewSession(Str(<<"N", "0", "C", "A", "L", "L">>),
                            Str(<<"L", "A", "5", "N", "T", "A">>), TRUE, TRUE, << >>, {}))
    \o BlockWrites([i \in 1..5 |-> CatalogProposal(i)])
    \o BlockWrites(<< CatalogProposal(6) >>)
    \o << Str(<<"F", "Q">>) \o << CR >> >>

\* The master has six outbound messages, the client holds all of them and has
\* nothing outbound.
SixToReject ==
  /\ xSess["master"].handler
  /\ Len(xSess["master"].outbox) = 6
  /\ xSess["client"].handler
  /\ \A i \in 1..6 : xSess["master"].outbox[i].mid \in xSess["client"].has
  /\ xSess["client"].outbox = << >>

SixRejectedDone ==
  /\ BothReturned
  /\ xWire["master"] = SixRejectedWire
  /\ xSess["master"].hSetSent = { << Mid(i), TRUE >> : i \in 1..6 }
  /\ xSess["master"].outbox = << >>
  /\ xSess["master"].trafficSent = {}

\* C13: when the master has 6 outbound messages and the client rejects every
\* proposal, the master writes a block of 5 and then a block of 1 and never an
\* FF, every one of the 6 MIDs is reported by SetSent as rejected, the outbox
\* ends empty, no MID is in trafficStats.Sent, and both sessions return
\* without an error.
C13_SixRejected ==
  (SixToReject /\ xWire["master"] = << >>)
    => /\ [](HasPrefix(SixRejectedWire, xWire["master"]))
       /\ [](\A i \in 1..Len(xWire["master"]) :
                xWire["master"][i] # Str(<<"F", "F">>) \o << CR >>)
       /\ [](\A s \in Sides : Returned(s) => xSess[s].err = "")
       /\ []((\A s \in Sides : Returned(s)) => SixRejectedDone)
       /\ [](SixRejectedDone \/ \E s \in Sides : CanStep(s))

C13_Witness ==
  /\ SixRejectedDone
  /\ Len(xWire["master"]) = 2 + 6 + 2 + 1
  /\ xSess["client"].quitReceived
  /\ xSess["client"].trafficReceived = << >>

\* No message was handed over on side s.
NoTraffic(s) ==
  /\ xSess[s].trafficSent = {}
  /\ xSess[s].trafficReceived = << >>
  /\ xSess[s].hSetSent = {}

\* C16: a master and a client session with nothing outbound, on a synchronous
\* pipe, both return from Exchange in the end, without an error and with no
\* message sent or received.
C16_QuietPairReturns ==
  /\ (\A s \in Sides : outbound(xSess[s]) = << >>) => <>[](BothReturned /\ \A s \in Sides : NoTraffic(s))
  /\ [](\A s \in Sides : xSess[s].err = "" /\ NoTraffic(s))

C16_Witness ==
  /\ BothReturned
  /\ \A s \in Sides : NoTraffic(s) /\ xSess[s].outbox = << >>
  /\ xSess["master"].quitSent
  /\ xSess["client"].quitReceived
  /\ Len(xWire["client"]) = 4
  /\ Len(xWire["master"]) = 3

\* The line of a write ends in the prompt character.
EndsInPrompt(item) == Len(Line(item)) > 0 /\ Line(item)[Len(Line(item))] = Asc[">"]

\* The lines the remote station wrote after its first line that ends in >.
AfterPrompt(lines) ==
  LET idx == { i \in 1..Len(lines) : EndsInPrompt(lines[i]) }
  IN  IF idx = {} THEN << >>
      ELSE SubSeq(lines, (CHOOSE i \in idx : \A j \in idx : i <= j) + 1, Len(lines))

\* What the client LA5NTA writes to LA1B-10 when it has nothing outbound.
ExpectLines ==
  << Str(<<";", "F", "W", ":", " ", "L", "A", "5", "N", "T", "A">>) \o << CR >>,
     Str(<<"[", "w", "l", "2", "k", "g", "o", "-", "0", ".", "1", "a", "-",
           "B", "2", "F", "H", "M", "$", "]">>) \o << CR >>,
     Str(<<";", " ", "L", "A", "1", "B", "-", "1", "0", " ", "D", "E", " ",
           "L", "A", "5", "N", "T", "A", " ", "(", "J", "O", "3", "9", "E", "Q", ")">>) \o << CR >>,
     Str(<<"F", "F">>) \o << CR >> >>

\* The session never had a message to propose.
NothingOutbound(sess) ==
  outbound(sess) = << >> /\ sess.deferred = {} /\ sess.hSetSent = {}

\* C17: a session that is not the master writes nothing, and fails on nothing,
\* before it has read a line that ends in >; what it writes then starts with
\* the ;FW: line, its SID and the greeting comment, in this order, followed by
\* FF when it has nothing outbound; when the remote answers FQ it returns
\* without an error, having written those four lines only.
C17_ClientHandshake ==
  /\ xSess["client"].pc = "hs_read" => xWire["client"] = << >> /\ xSess["client"].err = ""
  /\ xWire["client"] # << >> => \E i \in 1..Len(xWire["master"]) : EndsInPrompt(xWire["master"][i])
  /\ \A k \in 1..Len(xWire["client"]) :
       \/ k > 4
       \/ k = 4 /\ ~NothingOutbound(xSess["client"])
       \/ xWire["client"][k] = ExpectLines[k]
  /\ ( /\ Returned("client")
       /\ NothingOutbound(xSess["client"])
       /\ AfterPrompt(xWire["master"]) = << Str(<<"F", "Q">>) \o << CR >> >> )
       => /\ xSess["client"].err = ""
          /\ xSess["client"].quitReceived
          /\ xWire["client"] = ExpectLines

C17_Witness ==
  /\ Returned("client")
  /\ ~xSess["client"].handler
  /\ Len(xWire["master"]) = 4
  /\ xWire["master"][2] = Str(<<"F", "o", "o", "b", "a", "r">>) \o << CR >>
  /\ AfterPrompt(xWire["master"]) = << Str(<<"F", "Q">>) \o << CR >> >>
  /\ xSess["client"].err = ""
  /\ xSess["client"].quitReceived
  /\ xWire["client"] = ExpectLines

\* What side s wrote in the step.
Written(s) == SubSeq(xWire'[s], Len(xWire[s]) + 1, Len(xWire'[s]))

\* The step is handleOutbound with nothing to send, up to its Peek.
NothingToSend(s) ==
  /\ xSess[s].pc = "out"
  /\ xSess'[s].pc # "out"
  /\ outbound(xSess[s]) = << >>

\* The proposal of the remote station was deferred, the remote station then
\* wrote FF, and Exchange has returned.
DeferredThenFF ==
  /\ Returned("client")
  /\ ~xSess["client"].handler
  /\ AfterPrompt(xWire["master"]) =
       << Str(<<"F", "C", " ", "E", "M", " ", "T", "J", "K", "Y", "E", "I", "M", "M", "H", "S",
                "R", "B", " ", "5", "2", "7", " ", "1", "2", "3", " ", "0">>) \o << CR >>,
          Str(<<"F", ">", " ", "3", "b">>) \o << CR >>,
          Str(<<"F", "F">>) \o << CR >> >>

AnsweredFQ ==
  /\ xSess["client"].err = ""
  /\ xSess["client"].quitSent
  /\ \E k \in 1..Len(xWire["client"]) :
       xWire["client"][k] = Str(<<"F", "S", " ", "=">>) \o << CR >>
  /\ xWire["client"][Len(xWire["client"])] = Str(<<"F", "Q">>) \o << CR >>

\* handleOutbound on side s wrote FQ in the step.
WritesFQ(s) ==
  \E k \in 1..Len(Written(s)) : Written(s)[k] = Str(<<"F", "Q">>) \o << CR >>

\* FQ is written with nothing to send and remoteNoMsgs set, and quitSent is
\* returned with it.
QuitsInTime(s) ==
  WritesFQ(s) => ( /\ NothingToSend(s)
                   /\ xSess[s].remoteNoMsgs
                   /\ xSess'[s].quitSent
                   /\ xSess'[s].pc = "done"
                   /\ xSess'[s].err = "" )

\* With nothing to send, FQ is written when remoteNoMsgs is set and FF when it
\* is not.
TurnsOver(s) ==
  NothingToSend(s) => ( /\ Written(s) = << (IF xSess[s].remoteNoMsgs THEN Str(<<"F", "Q">>)
                                                                      ELSE Str(<<"F", "F">>))
                                              \o << CR >> >>
                        /\ xSess'[s].quitSent = xSess[s].remoteNoMsgs )

MaxStBlocks == 2

\* The length of a received block; the 11th byte of a block has i = 10.
MaxStBlock == 11

\* The counters of calls count up to here.
MaxStatuses == 3

\* updateStatus is called for the bytes of a block with i%10 == 0.
UpdateEvery == 10

StUnchangedOthers == UNCHANGED << ansVars, sessVars, outVars, frVars, inVars, lzVars, xVars, lztVars, sortVars, regVars, dlVars, chVars,
               dxVars, lnVars, flVars >>

Bump(n) == IF n < MaxStatuses THEN n + 1 ELSE n

StInit ==
  /\ AnsIdle
  /\ OutIdle
  /\ FrIdle
  /\ InIdle
  /\ LzIdle
  /\ XIdle
  /\ LztIdle
  /\ SortIdle
  /\ RegIdle
  /\ DlIdle
  /\ ChIdle
  /\ DxIdle
  /\ LnIdle
  /\ FlIdle
  /\ remoteNoMsgs = FALSE
  /\ stKind \in {"read", "write"}
  /\ stPc = "entry"
  /\ stErr = FALSE
  /\ stLeft \in 0..MaxStBlocks
  /\ stLen = 0
  /\ stI = 0
  /\ stDropped = 0
  /\ statusUpdater \in BOOLEAN
  /\ statusClosed = FALSE
  /\ tickerOn = FALSE
  /\ tickerC = FALSE
  /\ pubPc = "none"
  /\ pubOk = FALSE
  /\ pubCount = 0
  /\ pubDone = 0
  /\ pubLate = FALSE

\* A send that waits for the publisher.
updateStatusBlocking ==
  /\ pubPc = "wait"
  /\ pubPc' = "got"
  /\ pubOk' = TRUE
  /\ UNCHANGED stDropped

\* updateStatus: the select sends to the publisher that waits at its receive
\* and takes the default case otherwise.
updateStatus ==
  IF pubPc = "wait"
  THEN /\ pubPc' = "got"
       /\ pubOk' = TRUE
       /\ UNCHANGED stDropped
  ELSE /\ stDropped' = Bump(stDropped)
       /\ UNCHANGED << pubPc, pubOk >>

\* The transfer returns; the deferred close of the channel runs.
StReturn(err) ==
  /\ stPc' = "returned"
  /\ stErr' = err
  /\ statusClosed' = TRUE

\* UpdateStatus is called with a status whose Done is done.
Publish(done) ==
  /\ pubCount' = Bump(pubCount)
  /\ pubDone' = IF done THEN Bump(pubDone) ELSE pubDone
  /\ pubLate' = (pubLate \/ pubDone > 0)

\* The transfer returns before it starts a publisher: the first byte of the
\* body is not SOH, the header cannot be read, the offset differs, or the
\* data to send is shorter than 6 bytes.
StRefuse ==
  /\ stPc = "entry"
  /\ stPc' = "returned"
  /\ stErr' = TRUE
  /\ UNCHANGED << stKind, stLeft, stLen, stI, stDropped, statusUpdater, statusClosed, tickerOn,
                  tickerC, pubPc, pubOk, pubCount, pubDone, pubLate >>
  /\ StUnchangedOthers

\* The channel is made and the publisher is started; writeCompressed has
\* made the ticker before.
StSpawn ==
  /\ stPc = "entry"
  /\ stPc' = "running"
  /\ pubPc' = "start"
  /\ tickerOn' = (stKind = "write")
  /\ UNCHANGED << stKind, stErr, stLeft, stLen, stI, stDropped, statusUpdater, statusClosed,
                  tickerC, pubOk, pubCount, pubDone, pubLate >>
  /\ StUnchangedOthers

\* readCompressed between two blocks: updateStatus, then the byte read is STX
\* with the length of a block, EOT with the checksum (the checks pass or
\* fail), another byte, or the read fails.
StReadHead ==
  /\ stKind = "read"
  /\ stPc = "running"
  /\ stLen = 0
  /\ updateStatus
  /\ \/ /\ stLeft > 0
        /\ \E length \in 1..MaxStBlock :
             /\ stLen' = length
             /\ stI' = 0
             /\ stLeft' = stLeft - 1
        /\ UNCHANGED << stPc, stErr, statusClosed >>
     \/ /\ \E err \in BOOLEAN : StReturn(err)
        /\ UNCHANGED << stLen, stI, stLeft >>
  /\ UNCHANGED << stKind, statusUpdater, tickerOn, tickerC, pubCount, pubDone, pubLate >>
  /\ StUnchangedOthers

\* readCompressed inside a block: the byte is read and written to buf, and
\* updateStatus is called for every tenth; or the read fails.
StReadData ==
  /\ stKind = "read"
  /\ stPc = "running"
  /\ stLen > 0
  /\ \/ /\ IF stI % UpdateEvery = 0
           THEN updateStatus
           ELSE UNCHANGED << pubPc, pubOk, stDropped >>
        /\ stI' = IF stI + 1 = stLen THEN 0 ELSE stI + 1
        /\ stLen' = IF stI + 1 = stLen THEN 0 ELSE stLen
        /\ UNCHANGED << stPc, stErr, statusClosed >>
     \/ /\ StReturn(TRUE)
        /\ UNCHANGED << stLen, stI, pubPc, pubOk, stDropped >>
  /\ UNCHANGED << stKind, stLeft, statusUpdater, tickerOn, tickerC, pubCount, pubDone, pubLate >>
  /\ StUnchangedOthers

\* writeCompressed writes a chunk, or the write fails.
StWriteChunk ==
  /\ stKind = "write"
  /\ stPc = "running"
  /\ stLeft > 0
  /\ \/ /\ stLeft' = stLeft - 1
        /\ UNCHANGED << stPc, stErr, statusClosed >>
     \/ /\ StReturn(TRUE)
        /\ UNCHANGED stLeft
  /\ UNCHANGED << stKind, stLen, stI, stDropped, statusUpdater, tickerOn, tickerC, pubPc, pubOk,
                  pubCount, pubDone, pubLate >>
  /\ StUnchangedOthers

\* writeCompressed writes the checksum, flushes, stops the ticker and returns
\* the error of the last flush.
StWriteEnd ==
  /\ stKind = "write"
  /\ stPc = "running"
  /\ stLeft = 0
  /\ \E err \in BOOLEAN : StReturn(err)
  /\ tickerOn' = FALSE
  /\ UNCHANGED << stKind, stLeft, stLen, stI, stDropped, statusUpdater, tickerC, pubPc, pubOk,
                  pubCount, pubDone, pubLate >>
  /\ StUnchangedOthers

\* The ticker sends a tick; its channel holds one.
Tick ==
  /\ tickerOn
  /\ ~tickerC
  /\ tickerC' = TRUE
  /\ UNCHANGED << stKind, stPc, stErr, stLeft, stLen, stI, stDropped, statusUpdater, statusClosed,
                  tickerOn, pubPc, pubOk, pubCount, pubDone, pubLate >>
  /\ StUnchangedOthers

\* The publisher arrives at its receive or its select.
PubArrive ==
  /\ pubPc = "start"
  /\ pubPc' = "wait"
  /\ UNCHANGED << stKind, stPc, stErr, stLeft, stLen, stI, stDropped, statusUpdater, statusClosed,
                  tickerOn, tickerC, pubOk, pubCount, pubDone, pubLate >>
  /\ StUnchangedOthers

\* The receive of the publisher of readCompressed returns for the closed
\* channel.
PubClosed ==
  /\ stKind = "read"
  /\ pubPc = "wait"
  /\ statusClosed
  /\ pubPc' = "got"
  /\ pubOk' = FALSE
  /\ UNCHANGED << stKind, stPc, stErr, stLeft, stLen, stI, stDropped, statusUpdater, statusClosed,
                  tickerOn, tickerC, pubCount, pubDone, pubLate >>
  /\ StUnchangedOthers

\* A publisher that goes on receiving from the closed channel.
PubGotLoops ==
  /\ stKind = "read"
  /\ pubPc = "got"
  /\ IF statusUpdater
     THEN Publish(~pubOk) /\ pubPc' = "updating"
     ELSE /\ pubPc' = "wait"
          /\ UNCHANGED << pubCount, pubDone, pubLate >>
  /\ pubOk' = TRUE
  /\ UNCHANGED << stKind, stPc, stErr, stLeft, stLen, stI, stDropped, statusUpdater, statusClosed,
                  tickerOn, tickerC >>
  /\ StUnchangedOthers

\* The publisher of readCompressed after its receive: it calls UpdateStatus
\* when there is a statusUpdater, with Done = !ok, and returns when !ok.
PubGot ==
  /\ stKind = "read"
  /\ pubPc = "got"
  /\ IF statusUpdater
     THEN Publish(~pubOk) /\ pubPc' = "updating"
     ELSE /\ pubPc' = IF pubOk THEN "wait" ELSE "exited"
          /\ UNCHANGED << pubCount, pubDone, pubLate >>
  /\ UNCHANGED << stKind, stPc, stErr, stLeft, stLen, stI, stDropped, statusUpdater, statusClosed,
                  tickerOn, tickerC, pubOk >>
  /\ StUnchangedOthers

\* The select of the publisher of writeCompressed takes the tick.
PubSelectTick ==
  /\ stKind = "write"
  /\ pubPc = "wait"
  /\ tickerC
  /\ tickerC' = FALSE
  /\ IF statusUpdater
     THEN Publish(FALSE) /\ pubPc' = "updating" /\ pubOk' = TRUE
     ELSE UNCHANGED << pubPc, pubOk, pubCount, pubDone, pubLate >>
  /\ UNCHANGED << stKind, stPc, stErr, stLeft, stLen, stI, stDropped, statusUpdater, statusClosed,
                  tickerOn >>
  /\ StUnchangedOthers

\* The select of the publisher of writeCompressed takes the closed
\* statusDone.
PubSelectDone ==
  /\ stKind = "write"
  /\ pubPc = "wait"
  /\ statusClosed
  /\ IF statusUpdater
     THEN Publish(TRUE) /\ pubPc' = "updating" /\ pubOk' = FALSE
     ELSE /\ pubPc' = "exited"
          /\ UNCHANGED << pubOk, pubCount, pubDone, pubLate >>
  /\ UNCHANGED << stKind, stPc, stErr, stLeft, stLen, stI, stDropped, statusUpdater, statusClosed,
                  tickerOn, tickerC >>
  /\ StUnchangedOthers

\* UpdateStatus returns; the publisher returns after the status with
\* Done = true.
PubReturn ==
  /\ pubPc = "updating"
  /\ pubPc' = IF pubOk THEN "wait" ELSE "exited"
  /\ UNCHANGED << stKind, stPc, stErr, stLeft, stLen, stI, stDropped, statusUpdater, statusClosed,
                  tickerOn, tickerC, pubOk, pubCount, pubDone, pubLate >>
  /\ StUnchangedOthers

\* The steps of the transfer.
StTransfer == StRefuse \/ StSpawn \/ StReadHead \/ StReadData \/ StWriteChunk \/ StWriteEnd

\* The steps of the publisher outside UpdateStatus.
PubStep == PubArrive \/ PubClosed \/ PubGot \/ PubSelectTick \/ PubSelectDone

StNext == StTransfer \/ Tick \/ PubStep \/ PubReturn

\* The transport serves every read and write, the publisher is scheduled, and
\* a select with two ready cases takes each of them in the end.  UpdateStatus
\* need not return.
SpecStatus ==
  /\ StInit
  /\ [][StNext]_vars
  /\ WF_vars(StTransfer)
  /\ WF_vars(PubStep)
  /\ SF_vars(PubSelectDone)

\* The receive loop is between the start of the publisher and the return.
Receiving == stKind = "read" /\ stPc = "running"

\* C23: while a body is received the loop of readCompressed never waits for
\* the publisher: its next step is enabled in every state, a step taken while
\* the publisher is inside UpdateStatus leaves the publisher there and drops
\* the update it had to send, and the transfer returns even when UpdateStatus
\* never does.
C23_ReceiveNeverWaits ==
  /\ [](Receiving => ENABLED (StReadHead \/ StReadData))
  /\ [][ (Receiving /\ pubPc = "updating" /\ << stPc, stLen, stI >>' # << stPc, stLen, stI >>)
           => /\ pubPc' = "updating"
              /\ (stLen = 0 \/ (stPc' = "running" /\ stI % UpdateEvery = 0))
                   => stDropped' = Bump(stDropped) ]_vars
  /\ (Receiving ~> stPc = "returned")

C23_Witness ==
  /\ stKind = "read"
  /\ stPc = "returned"
  /\ ~stErr
  /\ pubPc = "updating"
  /\ pubOk
  /\ pubCount = 1
  /\ stDropped = MaxStatuses

\* The publisher is inside a call of UpdateStatus that never returns.
ReporterStuck == [](pubPc = "updating")

\* C24: the publisher started for a transfer terminates after every return
\* of readCompressed and writeCompressed, unless UpdateStatus does not
\* return; with a statusUpdater it has then called UpdateStatus exactly once
\* with Done = true, and never calls it after that call.
C24_PublisherTerminates ==
  /\ []((stPc = "returned" /\ pubPc # "none") => <>(pubPc = "exited" \/ ReporterStuck))
  /\ [](pubPc = "exited" => stPc = "returned" /\ pubDone = (IF statusUpdater THEN 1 ELSE 0))
  /\ [](pubDone <= 1 /\ ~pubLate)
  /\ [](pubDone = 1 => stPc = "returned" /\ pubPc \in {"updating", "exited"} /\ ~pubOk)

C24_Witness ==
  /\ stKind = "write"
  /\ stPc = "returned"
  /\ stErr
  /\ tickerOn
  /\ pubPc = "exited"
  /\ pubCount = 2
  /\ pubDone = 1

C24_WitnessRead ==
  /\ stKind = "read"
  /\ stPc = "returned"
  /\ pubPc = "exited"
  /\ pubCount = 2
  /\ pubDone = 1
  /\ stDropped = 1

(***************************************************************************)
(* SpecLZT: a Reader over the output of a Writer of which a header bit was *)
(* flipped or the end was cut off; Read and Close are called in any order. *)
(***************************************************************************)

\* The longest input of the streams that are changed.
MaxLztLen == 3

\* The calls of Read on one Reader.
MaxLzReads == 7

\* The bits of the length field and of the CRC field that are flipped: the
\* three lowest and the sign of the size, the lowest and the highest of the
\* CRC.
LenFlips == {0, 1, 2, 31}

CrcFlips == {0, 15}

LztInputs == { in \in LzInputs : Len(in) <= MaxLztLen }

\* The bytes bs with bit k flipped, bit 0 being the lowest bit of bs[1].
FlipBit(bs, k) ==
  LET i == k \div 8 + 1
      w == 2 ^ (k % 8)
  IN  [bs EXCEPT ![i] = IF (@ \div w) % 2 = 1 THEN @ - w ELSE @ + w]

\* The bytes of the header before the size: the CRC of the B2 format.
CrcLen(crc16) == IF crc16 THEN 2 ELSE 0

\* What may be done to the stream out.
Tampers(out, crc16) ==
  { [kind |-> "len", at |-> k] : k \in LenFlips }
  \cup { [kind |-> "crc", at |-> k] : k \in IF crc16 THEN CrcFlips ELSE {} }
  \cup { [kind |-> "cut", at |-> n] : n \in (CrcLen(crc16) + 4)..(Len(out) - 1) }

Tampered(out, crc16, t) ==
  IF t.kind = "len" THEN FlipBit(out, 8 * CrcLen(crc16) + t.at)
  ELSE IF t.kind = "crc" THEN FlipBit(out, t.at)
  ELSE SubSeq(out, 1, t.at)

LztUnchangedOthers ==
  UNCHANGED << ansVars, sessVars, outVars, frVars, inVars, xVars, stVars, sortVars, regVars, dlVars, chVars,
               dxVars, lnVars, flVars >>

\* A Writer was given an input and closed.
LztInit ==
  /\ AnsIdle
  /\ OutIdle
  /\ FrIdle
  /\ InIdle
  /\ XIdle
  /\ StIdle
  /\ LztIdle
  /\ SortIdle
  /\ RegIdle
  /\ DlIdle
  /\ ChIdle
  /\ DxIdle
  /\ LnIdle
  /\ FlIdle
  /\ remoteNoMsgs = FALSE
  /\ lzIn \in LztInputs
  /\ lzCrc16 \in BOOLEAN
  /\ lzPc = "written"
  /\ \E closed \in {Close(Write(NewWriter(lzCrc16), lzIn))} :
       /\ lzW = closed.w
       /\ lzOut = closed.out
  /\ lzFed = Len(lzIn)
  /\ lzD = << >>
  /\ lzGot = << >>
  /\ lzErr = ""

\* The stream is changed on its way to the Reader.
LzTamper ==
  /\ lzPc = "written"
  /\ lzTamper.kind = "none"
  /\ \E t \in Tampers(lzOut, lzCrc16) :
       /\ lzTamper' = t
       /\ lzOut' = Tampered(lzOut, lzCrc16, t)
  /\ UNCHANGED << lzIn, lzCrc16, lzPc, lzW, lzFed, lzD, lzGot, lzErr, lzRes, lzReads, lzFirst >>
  /\ LztUnchangedOthers

\* Reader.Read into a buffer of plen bytes, also after a Read that returned
\* an error.
LztRead ==
  /\ lzPc \in {"reading", "eof", "failed"}
  /\ lzPc = "failed" => lzReads > 0
  /\ lzReads < MaxLzReads
  /\ \E plen \in 1..MaxReadLen :
       \E res \in {Read(lzD, plen)} :
         /\ lzD' = res.d
         /\ lzGot' = lzGot \o res.out
         /\ lzRes' = [n |-> Len(res.out), err |-> res.err]
         /\ lzFirst' = IF lzFirst = "" THEN res.err ELSE lzFirst
         /\ lzPc' = IF res.err = "" THEN lzPc
                    ELSE IF res.err = "EOF" THEN "eof" ELSE "failed"
  /\ lzReads' = lzReads + 1
  /\ UNCHANGED << lzIn, lzCrc16, lzW, lzFed, lzOut, lzErr, lzTamper >>
  /\ LztUnchangedOthers

\* Reader.Close, at any time after NewReader.
LztClose ==
  /\ lzPc \in {"reading", "eof", "failed"}
  /\ lzPc = "failed" => lzReads > 0
  /\ lzErr' = ReaderClose(lzD)
  /\ lzPc' = "closed"
  /\ UNCHANGED << lzIn, lzCrc16, lzW, lzFed, lzOut, lzD, lzGot, lzTamper, lzRes, lzReads,
                  lzFirst >>
  /\ LztUnchangedOthers

LztNext ==
  \/ LzTamper
  \/ LzNewReader
  \/ LztRead
  \/ LztClose

SpecLZT == LztInit /\ [][LztNext]_vars

ErrChecksum == "lzhuf: invalid checksum"

\* C25: for every stream of the encoder with one bit of the CRC field or of
\* the length field flipped, decoding (Read up to an error, then Close)
\* reports ErrChecksum: no Read returns another error than io.EOF, and Close
\* returns ErrChecksum.
C25_FlipReportsChecksum ==
  lzTamper.kind \in {"len", "crc"}
    => /\ lzFirst \in {"", "EOF", ErrChecksum}
       /\ (lzPc = "closed" /\ lzFirst # "") => lzErr = ErrChecksum

\* C26: the Reads of a Reader return no more than header.size bytes in
\* total, and a Read after exactly header.size bytes were returned returns
\* 0 and io.EOF.
C26_StopsAtHeaderSize ==
  /\ [](lzPc \in {"reading", "eof", "failed", "closed"} /\ lzReads > 0
          => Len(lzGot) <= lzD.hsize)
  /\ [][ (lzReads' = lzReads + 1 /\ Len(lzGot) = lzD.hsize)
           => lzRes' = [n |-> 0, err |-> "EOF"] ]_vars

\* The bit reader has reached the end of the input before header.size bytes
\* were decoded.
InputEnded == lzD # << >> /\ lzD.rerr = "EOF" /\ lzD.pos < lzD.hsize

UnexpectedEOF == [n |-> 0, err |-> "unexpected EOF"]

MaxSortLen == 3

\* The compressed sizes of the proposals.
SortSizes == {1, 2}

\* The precedence classes, the highest first.
Precedences == << "Flash", "Immediate", "Priority", "Routine" >>

Rank(class) == CHOOSE i \in 1..Len(Precedences) : Precedences[i] = class

Flash == Rank("Flash")

Immediate == Rank("Immediate")

Priority == Rank("Priority")

Routine == Rank("Routine")

\* The tag of a precedence in a title: //WL2K c/
PrecedenceTag(c) == Str(<<"/", "/", "W", "L", "2", "K", " ", c, "/">>)

\* The title without a leading Re:
WithoutRe(title) ==
  IF HasPrefix(title, Str(<<"R", "e", ":">>)) THEN Drop(title, 3) ELSE title

\* The class of a title: that of the tag it starts with, Routine without one.
Precedence(title) ==
  IF HasPrefix(WithoutRe(title), PrecedenceTag("Z")) THEN Flash
  ELSE IF HasPrefix(WithoutRe(title), PrecedenceTag("O")) THEN Immediate
  ELSE IF HasPrefix(WithoutRe(title), PrecedenceTag("P")) THEN Priority
  ELSE Routine

\* An order that goes by size in every class.
LessBySize(a, b) ==
  \/ Precedence(a.title) < Precedence(b.title)
  \/ /\ Precedence(a.title) = Precedence(b.title)
     /\ a.compressedSize < b.compressedSize

\* Whether a is proposed before b wherever they were inserted: a is of a
\* higher class, or both are Routine and a is smaller.
Less(a, b) ==
  \/ Precedence(a.title) < Precedence(b.title)
  \/ /\ Precedence(a.title) = Routine
     /\ Precedence(b.title) = Routine
     /\ a.compressedSize < b.compressedSize

\* sortProposals(props): every proposal is put behind the proposals that are
\* not to come after it, so that equal proposals keep their order.
RECURSIVE sortProposals(_)
sortProposals(props) ==
  IF props = << >> THEN << >>
  ELSE LET sorted == sortProposals(SubSeq(props, 1, Len(props) - 1))
           p      == props[Len(props)]
           before == SelectSeq(sorted, LAMBDA q : ~Less(p, q))
           after  == SelectSeq(sorted, LAMBDA q : Less(p, q))
       IN  before \o << p >> \o after

\* The titles of TestSortProposals.
SortTitles ==
  << Str(<<"J", "u", "s", "t">>),
     Str(<<"R", "e", ":">>) \o PrecedenceTag("O") \o Str(<<"V">>),
     PrecedenceTag("R") \o Str(<<"R", "e", "a", "d">>),
     PrecedenceTag("P") \o Str(<<" ", "P">>),
     PrecedenceTag("Z") \o Str(<<"T">>) >>

\* The proposals of TestSortProposals: the longer subject compresses to more
\* bytes.
TestProps ==
  [k \in 1..5 |-> [id |-> k, title |-> SortTitles[k],
                   compressedSize |-> IF k = 3 THEN 2 ELSE 1]]

\* The lists of at most MaxSortLen proposals with these titles; id is the
\* place in the list.
SortLists ==
  LET RECURSIVE OfLen(_)
      OfLen(n) ==
        IF n = 0 THEN {<< >>}
        ELSE {Append(l, [id |-> n, title |-> SortTitles[t], compressedSize |-> c]) :
                l \in OfLen(n - 1), t \in 1..5, c \in SortSizes}
  IN  UNION {OfLen(n) : n \in 0..MaxSortLen}

SortUnchangedOthers ==
  UNCHANGED << ansVars, sessVars, outVars, frVars, inVars, lzVars, xVars, stVars, lztVars, regVars, dlVars, chVars,
               dxVars, lnVars, flVars >>

SortInit ==
  /\ AnsIdle
  /\ OutIdle
  /\ FrIdle
  /\ InIdle
  /\ LzIdle
  /\ XIdle
  /\ StIdle
  /\ LztIdle
  /\ RegIdle
  /\ DlIdle
  /\ ChIdle
  /\ DxIdle
  /\ LnIdle
  /\ FlIdle
  /\ remoteNoMsgs = FALSE
  /\ srtProps \in SortLists \cup {TestProps}
  /\ srtOut = << >>
  /\ srtPc = "unsorted"

\* sortProposals is called.
Sort ==
  /\ srtPc = "unsorted"
  /\ srtOut' = sortProposals(srtProps)
  /\ srtPc' = "sorted"
  /\ UNCHANGED srtProps
  /\ SortUnchangedOthers

SortNext == Sort

SpecSort == SortInit /\ [][SortNext]_vars

\* C28: after sortProposals the proposals are the same, a proposal of a
\* higher class (Flash, Immediate, Priority, Routine, by the tag of the
\* title, also behind Re:; //WL2K R/ and no tag are Routine) comes before
\* every proposal of a lower one, the Routine proposals are in the order of
\* their compressed sizes, and proposals of one class (for Routine: of one
\* size, too) are in the order in which they were inserted.
C28_SortedByPrecedence ==
  srtPc = "sorted" =>
    /\ Len(srtOut) = Len(srtProps)
    /\ \A k \in 1..Len(srtProps) : \E i \in 1..Len(srtOut) : srtOut[i] = srtProps[k]
    /\ \A i, j \in 1..Len(srtOut) :
         i < j =>
           /\ Precedence(srtOut[i].title) <= Precedence(srtOut[j].title)
           /\ Precedence(srtOut[i].title) = Precedence(srtOut[j].title) =>
                IF Precedence(srtOut[i].title) = Routine
                THEN \/ srtOut[i].compressedSize < srtOut[j].compressedSize
                     \/ /\ srtOut[i].compressedSize = srtOut[j].compressedSize
                        /\ srtOut[i].id < srtOut[j].id
                ELSE srtOut[i].id < srtOut[j].id
    /\ \A i \in 1..Len(srtOut) :
         Precedence(srtOut[i].title)
           = (CASE srtOut[i].title = SortTitles[5] -> Flash
                [] srtOut[i].title = SortTitles[2] -> Immediate
                [] srtOut[i].title = SortTitles[4] -> Priority
                [] OTHER -> Routine)

\* TestSortProposals: Flash, Immediate, Priority, then the two Routine ones
\* by size.
C28_Witness ==
  /\ srtPc = "sorted"
  /\ srtProps = TestProps
  /\ [i \in 1..5 |-> srtOut[i].id] = << 5, 2, 4, 1, 3 >>

\* Two Priority proposals keep their order although the second is smaller.
C28_WitnessStable ==
  /\ srtPc = "sorted"
  /\ Len(srtOut) = 2
  /\ srtOut[1].title = SortTitles[4] /\ srtOut[2].title = SortTitles[4]
  /\ srtOut[1].compressedSize = 2 /\ srtOut[2].compressedSize = 1

(***************************************************************************)
(* The registry of dialers: RegisterDialer, RegisterContextDialer,         *)
(* UnregisterDialer and DialURL, called by concurrent callers.             *)
(***************************************************************************)

\* The calls made by all callers together.
MaxRegCalls == 3

Callers == {"a", "b"}

Schemes == {"ax25", "telnet"}

\* A Dialer that is no ContextDialer, and a ContextDialer.
Dialers == {"dialer", "ctxDialer"}

IsContextDialer(d) == d = "ctxDialer"

NoDialer == [dialer |-> "", wrapped |-> FALSE]

\* The calls: RegisterDialer takes both dialers, RegisterContextDialer the
\* ContextDialer.
RegCalls ==
  { [op |-> "RegisterDialer", scheme |-> s, dialer |-> d] : s \in Schemes, d \in Dialers }
  \cup { [op |-> "RegisterContextDialer", scheme |-> s, dialer |-> d] :
           s \in Schemes, d \in {x \in Dialers : IsContextDialer(x)} }
  \cup { [op |-> o, scheme |-> s, dialer |-> ""] :
           o \in {"UnregisterDialer", "DialURL"}, s \in Schemes }

\* What RegisterDialer hands to RegisterContextDialer: the dialer, in a
\* noCtxDialer when it is no ContextDialer.
Registered(call) ==
  [dialer |-> call.dialer,
   wrapped |-> call.op = "RegisterDialer" /\ ~IsContextDialer(call.dialer)]

\* The dialer the writes of log leave for scheme.
RECURSIVE LastRegistered(_, _)
LastRegistered(log, scheme) ==
  IF log = << >> THEN NoDialer
  ELSE IF log[Len(log)].scheme = scheme THEN log[Len(log)].value
  ELSE LastRegistered(SubSeq(log, 1, Len(log) - 1), scheme)

RegUnchangedOthers ==
  UNCHANGED << ansVars, sessVars, outVars, frVars, inVars, lzVars, xVars, stVars, lztVars,
               sortVars, dlVars, chVars, dxVars, lnVars, flVars >>

RegInit ==
  /\ AnsIdle
  /\ OutIdle
  /\ FrIdle
  /\ InIdle
  /\ LzIdle
  /\ XIdle
  /\ StIdle
  /\ LztIdle
  /\ SortIdle
  /\ DlIdle
  /\ ChIdle
  /\ DxIdle
  /\ LnIdle
  /\ FlIdle
  /\ remoteNoMsgs = FALSE
  /\ dialersMu = ""
  /\ dialersM = [s \in Schemes |-> NoDialer]
  /\ dialersNil = TRUE
  /\ regPc = [c \in Callers |-> "idle"]
  /\ regOp = [c \in Callers |-> [op |-> "", scheme |-> "", dialer |-> ""]]
  /\ regGot = [c \in Callers |-> NoDialer]
  /\ regSeen = [c \in Callers |-> 0]
  /\ regRet = [c \in Callers |-> ""]
  /\ regLog = << >>
  /\ regCalls = 0

\* Caller c makes a call and arrives at dialers.mu.Lock().
RegCall(c) ==
  /\ regPc[c] = "idle"
  /\ regCalls < MaxRegCalls
  /\ \E call \in RegCalls : regOp' = [regOp EXCEPT ![c] = call]
  /\ regPc' = [regPc EXCEPT ![c] = "lock"]
  /\ regRet' = [regRet EXCEPT ![c] = ""]
  /\ regCalls' = regCalls + 1
  /\ UNCHANGED << dialersMu, dialersM, dialersNil, regGot, regSeen, regLog >>
  /\ RegUnchangedOthers

\* A Lock that does not wait.
LockAnyway(c) ==
  /\ regPc[c] = "lock"
  /\ dialersMu' = c
  /\ regPc' = [regPc EXCEPT ![c] = "held"]
  /\ UNCHANGED << dialersM, dialersNil, regOp, regGot, regSeen, regRet, regLog, regCalls >>
  /\ RegUnchangedOthers

\* dialers.mu.Lock() returns when no caller holds the mutex.
Lock(c) ==
  /\ regPc[c] = "lock"
  /\ dialersMu = ""
  /\ dialersMu' = c
  /\ regPc' = [regPc EXCEPT ![c] = "held"]
  /\ UNCHANGED << dialersM, dialersNil, regOp, regGot, regSeen, regRet, regLog, regCalls >>
  /\ RegUnchangedOthers

\* Between Lock and Unlock: RegisterContextDialer makes the map when it is
\* nil and stores the dialer, UnregisterDialer deletes the scheme (nothing
\* happens on a nil map), DialURLContext reads the scheme.
Access(c) ==
  /\ regPc[c] = "held"
  /\ regPc' = [regPc EXCEPT ![c] = "accessed"]
  /\ IF regOp[c].op = "DialURL"
     THEN /\ regGot' = [regGot EXCEPT ![c] = dialersM[regOp[c].scheme]]
          /\ regSeen' = [regSeen EXCEPT ![c] = Len(regLog)]
          /\ UNCHANGED << dialersM, dialersNil, regLog >>
     ELSE IF regOp[c].op = "UnregisterDialer"
     THEN /\ dialersM' = [dialersM EXCEPT ![regOp[c].scheme] = NoDialer]
          /\ regLog' = Append(regLog, [scheme |-> regOp[c].scheme, value |-> NoDialer])
          /\ UNCHANGED << dialersNil, regGot, regSeen >>
     ELSE /\ dialersNil' = FALSE
          /\ dialersM' = [dialersM EXCEPT ![regOp[c].scheme] = Registered(regOp[c])]
          /\ regLog' = Append(regLog, [scheme |-> regOp[c].scheme,
                                       value |-> Registered(regOp[c])])
          /\ UNCHANGED << regGot, regSeen >>
  /\ UNCHANGED << dialersMu, regOp, regRet, regCalls >>
  /\ RegUnchangedOthers

\* dialers.mu.Unlock(); the calls that register and unregister return.
Unlock(c) ==
  /\ regPc[c] = "accessed"
  /\ dialersMu' = ""
  /\ regPc' = [regPc EXCEPT ![c] = IF regOp[c].op = "DialURL" THEN "looked" ELSE "idle"]
  /\ UNCHANGED << dialersM, dialersNil, regOp, regGot, regSeen, regRet, regLog, regCalls >>
  /\ RegUnchangedOthers

\* DialURLContext after the Unlock: ErrMissingDialer when the scheme was not
\* in the map, and the call of the dialer otherwise.
Dispatch(c) ==
  /\ regPc[c] = "looked"
  /\ IF regGot[c] = NoDialer
     THEN /\ regPc' = [regPc EXCEPT ![c] = "idle"]
          /\ regRet' = [regRet EXCEPT ![c] = "ErrMissingDialer"]
     ELSE /\ regPc' = [regPc EXCEPT ![c] = "dialing"]
          /\ regRet' = [regRet EXCEPT ![c] = regGot[c].dialer]
  /\ UNCHANGED << dialersMu, dialersM, dialersNil, regOp, regGot, regSeen, regLog, regCalls >>
  /\ RegUnchangedOthers

\* The dialer returns.
Dialed(c) ==
  /\ regPc[c] = "dialing"
  /\ regPc' = [regPc EXCEPT ![c] = "idle"]
  /\ UNCHANGED << dialersMu, dialersM, dialersNil, regOp, regGot, regSeen, regRet, regLog,
                  regCalls >>
  /\ RegUnchangedOthers

RegNext ==
  \E c \in Callers :
    \/ RegCall(c)
    \/ Lock(c)
    \/ Access(c)
    \/ Unlock(c)
    \/ Dispatch(c)
    \/ Dialed(c)

SpecRegistry == RegInit /\ [][RegNext]_vars

\* The dialer that was registered last for the scheme of c's call, and not
\* unregistered, when c read the map.
Current(c) == LastRegistered(SubSeq(regLog, 1, regSeen[c]), regOp[c].scheme)

\* C29: in every interleaving DialURL calls the dialer that was registered
\* last for the scheme and not unregistered since, as of its read of the
\* map, and returns ErrMissingDialer without a call of a dialer when there
\* is none; the map is read and written only by the caller that holds the
\* mutex, one caller at a time, and no caller holds it while its dialer runs.
C29_RegistryUnderMutex ==
  /\ [](\A c \in Callers :
          /\ regPc[c] = "dialing"
               => /\ Current(c) # NoDialer
                  /\ regRet[c] = Current(c).dialer
                  /\ dialersMu # c
          /\ regRet[c] = "ErrMissingDialer" => Current(c) = NoDialer
          /\ regPc[c] \in {"held", "accessed"} <=> dialersMu = c)
  /\ [][ \A c \in Callers :
           /\ (regPc[c] = "looked" /\ regPc'[c] # "looked" /\ Current(c) = NoDialer)
                => (regPc'[c] = "idle" /\ regRet'[c] = "ErrMissingDialer")
           /\ (regPc'[c] = "accessed" /\ regPc[c] # "accessed")
                => (dialersMu = c /\ \A o \in Callers \ {c} : regPc[o] \notin {"held", "accessed"}) ]_vars
  /\ [][ (dialersM' # dialersM \/ dialersNil' # dialersNil \/ regGot' # regGot)
           => \E c \in Callers : dialersMu = c /\ regPc[c] = "held" /\ regPc'[c] = "accessed" ]_vars

\* Caller a runs the dialer it read while b has registered another dialer
\* for the scheme since.
C29_Witness ==
  /\ regPc["a"] = "dialing"
  /\ regRet["a"] = "dialer"
  /\ regOp["a"].scheme = "ax25"
  /\ dialersM["ax25"] = [dialer |-> "ctxDialer", wrapped |-> FALSE]
  /\ regPc["b"] = "idle"
  /\ dialersMu = ""

(***************************************************************************)
(* TNC.DialBandwidth of the ardop transport.  The older variant of the     *)
(* function has no wait for a clear channel: it is the case of a busyFunc  *)
(* that is nil.                                                            *)
(***************************************************************************)

\* The DialBandwidth calls.
MaxDials == 2

\* The zero Bandwidth.
ZeroBandwidth == ""

Bandwidths == {"500MAX", "2000MAX"}

DlUnchangedOthers ==
  UNCHANGED << ansVars, sessVars, outVars, frVars, inVars, lzVars, xVars, stVars, lztVars,
               sortVars, regVars, chVars, dxVars, lnVars, flVars >>

DlInit ==
  /\ AnsIdle
  /\ OutIdle
  /\ FrIdle
  /\ InIdle
  /\ LzIdle
  /\ XIdle
  /\ StIdle
  /\ LztIdle
  /\ SortIdle
  /\ RegIdle
  /\ ChIdle
  /\ DxIdle
  /\ LnIdle
  /\ FlIdle
  /\ remoteNoMsgs = FALSE
  /\ tncClosed = FALSE
  /\ tncBusy = FALSE
  /\ tncARQBW \in Bandwidths
  /\ tncData = << "nil" >>
  /\ dlPc = "idle"
  /\ dlBw = ZeroBandwidth
  /\ dlBusyFunc = FALSE
  /\ dlCurrent = ZeroBandwidth
  /\ dlDefers = << >>
  /\ dlErr = ""
  /\ dlSets = << >>
  /\ dlCount = 0

\* DialBandwidth returns err.
DlReturn(err) ==
  /\ dlPc' = "returned"
  /\ dlErr' = err

\* set(cmdARQBW, bw): the TNC takes the bandwidth when it answers the
\* command and keeps its own on a fault; a closed TNC is not asked.
SetARQBandwidth(bw, ok) ==
  /\ tncARQBW' = IF ok /\ ~tncClosed THEN bw ELSE tncARQBW
  /\ dlSets' = Append(dlSets, bw)

\* for _, fn := range defers { _ = fn() }: the previous bandwidth is set
\* again, the error of the command is dropped.
RunDefers(ok) ==
  IF dlDefers = << >>
  THEN UNCHANGED << tncARQBW, dlSets >>
  ELSE SetARQBandwidth(dlDefers[1], ok)

\* The TNC is closed.
TNCClose ==
  /\ ~tncClosed
  /\ tncClosed' = TRUE
  /\ UNCHANGED << tncBusy, tncARQBW, tncData, dlPc, dlBw, dlBusyFunc, dlCurrent, dlDefers, dlErr,
                  dlSets, dlCount >>
  /\ DlUnchangedOthers

\* The TNC reports the channel busy or clear.
BusyChanges ==
  /\ ~tncClosed
  /\ tncBusy' = ~tncBusy
  /\ UNCHANGED << tncClosed, tncARQBW, tncData, dlPc, dlBw, dlBusyFunc, dlCurrent, dlDefers,
                  dlErr, dlSets, dlCount >>
  /\ DlUnchangedOthers

\* DialBandwidth is called with bw, with or without a busyFunc, and tests
\* tnc.closed and bw.IsZero().
DialBandwidth ==
  /\ dlPc \in {"idle", "returned"}
  /\ dlCount < MaxDials
  /\ dlCount' = dlCount + 1
  /\ \E bw \in Bandwidths \cup {ZeroBandwidth} : dlBw' = bw
  /\ \E busyFunc \in BOOLEAN : dlBusyFunc' = busyFunc
  /\ dlDefers' = << >>
  /\ dlSets' = << >>
  /\ dlCurrent' = ZeroBandwidth
  /\ IF tncClosed THEN DlReturn("ErrTNCClosed")
     ELSE /\ dlPc' = IF dlBw' # ZeroBandwidth THEN "ARQBandwidth" ELSE "busy"
          /\ dlErr' = ""
  /\ UNCHANGED << tncClosed, tncBusy, tncARQBW, tncData >>
  /\ DlUnchangedOthers

\* currentBw, err := tnc.ARQBandwidth()
ARQBandwidth ==
  /\ dlPc = "ARQBandwidth"
  /\ \E ok \in BOOLEAN :
       IF ok
       THEN /\ dlCurrent' = tncARQBW
            /\ dlPc' = "SetARQBandwidth"
            /\ UNCHANGED dlErr
       ELSE /\ DlReturn("invalid ARQBW response")
            /\ UNCHANGED dlCurrent
  /\ UNCHANGED << tncClosed, tncBusy, tncARQBW, tncData, dlBw, dlBusyFunc, dlDefers, dlSets,
                  dlCount >>
  /\ DlUnchangedOthers

\* tnc.SetARQBandwidth(bw), and the append to defers when it succeeds.
DlSetARQBandwidth ==
  /\ dlPc = "SetARQBandwidth"
  /\ \E ok \in BOOLEAN :
       /\ SetARQBandwidth(dlBw, ok)
       /\ IF ok /\ ~tncClosed
          THEN /\ dlDefers' = << dlCurrent >>
               /\ dlPc' = "busy"
               /\ UNCHANGED dlErr
          ELSE /\ DlReturn(IF tncClosed THEN "ErrTNCClosed" ELSE "fault")
               /\ UNCHANGED dlDefers
  /\ UNCHANGED << tncClosed, tncBusy, tncData, dlBw, dlBusyFunc, dlCurrent, dlCount >>
  /\ DlUnchangedOthers

\* if tnc.busyFunc != nil, and waitIfBusy up to the call of busyFunc.
waitIfBusy ==
  /\ dlPc = "busy"
  /\ dlPc' = IF dlBusyFunc /\ tncBusy THEN "busyFunc" ELSE "arqCall"
  /\ UNCHANGED << tncClosed, tncBusy, tncARQBW, tncData, dlBw, dlBusyFunc, dlCurrent, dlDefers,
                  dlErr, dlSets, dlCount >>
  /\ DlUnchangedOthers

\* busyFunc returns abort.
busyFuncReturns ==
  /\ dlPc = "busyFunc"
  /\ \E abort \in BOOLEAN :
       IF abort
       THEN DlReturn("aborted while waiting for clear channel")
       ELSE /\ dlPc' = "arqCall"
            /\ UNCHANGED dlErr
  /\ UNCHANGED << tncARQBW, dlSets >>
  /\ UNCHANGED << tncClosed, tncBusy, tncData, dlBw, dlBusyFunc, dlCurrent, dlDefers, dlCount >>
  /\ DlUnchangedOthers

\* tnc.arqCall and what follows its error; a TNC that is closed or has a
\* connection does not connect.
arqCall ==
  /\ dlPc = "arqCall"
  /\ \E connected \in BOOLEAN, ok \in BOOLEAN :
       IF connected /\ ~tncClosed /\ tncData = << "nil" >>
       THEN /\ dlPc' = "MyCall"
            /\ UNCHANGED << dlErr, tncARQBW, dlSets >>
       ELSE /\ DlReturn(IF tncClosed THEN "ErrTNCClosed"
                        ELSE IF tncData # << "nil" >> THEN "ErrConnectInProgress"
                        ELSE "ErrConnectTimeout")
            /\ RunDefers(ok)
  /\ UNCHANGED << tncClosed, tncBusy, tncData, dlBw, dlBusyFunc, dlCurrent, dlDefers, dlCount >>
  /\ DlUnchangedOthers

\* tnc.MyCall(): getString returns ("", nil) when the TNC does not answer,
\* so err is nil.
MyCallErr == "nil"

\* mycall, err := tnc.MyCall() and the rest of DialBandwidth.
MyCall ==
  /\ dlPc = "MyCall"
  /\ \E ok \in BOOLEAN :
       IF MyCallErr # "nil"
       THEN /\ DlReturn("Error when getting mycall")
            /\ RunDefers(ok)
            /\ UNCHANGED tncData
       ELSE /\ DlReturn("nil")
            /\ tncData' = dlDefers
            /\ UNCHANGED << tncARQBW, dlSets >>
  /\ UNCHANGED << tncClosed, tncBusy, dlBw, dlBusyFunc, dlCurrent, dlDefers, dlCount >>
  /\ DlUnchangedOthers

DlNext ==
  \/ TNCClose
  \/ BusyChanges
  \/ DialBandwidth
  \/ ARQBandwidth
  \/ DlSetARQBandwidth
  \/ waitIfBusy
  \/ busyFuncReturns
  \/ arqCall
  \/ MyCall

SpecDial == DlInit /\ [][DlNext]_vars

\* DialBandwidth has returned an error after it changed the bandwidth.
FailedAfterChange ==
  /\ dlPc = "returned"
  /\ dlErr # "nil"
  /\ dlDefers # << >>

\* C30: when DialBandwidth has changed the ARQ bandwidth and then returns an
\* error, its last SetARQBandwidth before the return is the one of the
\* previous bandwidth.
C30_BandwidthRestoredOnError ==
  FailedAfterChange
    => /\ Len(dlSets) = 2
       /\ dlSets[2] = dlCurrent
       /\ dlSets[1] = dlBw

(***************************************************************************)
(* handleOutbound of the earlier revision, which calls itself when the     *)
(* block left nothing in sent and the mailbox still has outbound messages. *)
(* sendOutbound is the one of SpecOut.  The mailbox is the handler's: it   *)
(* drops a message on SetSent and holds back the deferred ones.            *)
(***************************************************************************)

\* The blocks one call of handleOutbound may propose.
MaxOutBlocks == 3

\* The blocks proposed so far: the F> lines written.
BlocksWritten(wire) ==
  Cardinality({ i \in 1..Len(wire) : IsPromptWrite(wire[i]) })

\* s.outbound() after the calls of SetSent and SetDeferred.
OutboundLeft(box, setSent, deferred) ==
  SelectSeq(box, LAMBDA p : /\ << p.mid, TRUE >> \notin setSent
                            /\ << p.mid, FALSE >> \notin setSent
                            /\ \A i \in 1..Len(deferred) : deferred[i] # p.mid)

Out4Init == OutInit

\* len(s.outbound()) is 0: no block is sent.
Out4NothingToSend ==
  /\ oPc = "start"
  /\ Len(outbox) = 0
  /\ oPc' = "turnover4"
  /\ UNCHANGED << outbox, remoteNoMsgs, oWire, oBlock, oIdx, oSent, oErr, oQuitSent,
                  hSetSent, hDeferred, trafficSent >>
  /\ UNCHANGED << rwVars, hSetRobust >>
  /\ UNCHANGED << ansVars, frVars, inVars, lzVars, xVars, moreVars >>

\* if len(sent) == 0 && len(s.outbound()) > 0 { return s.handleOutbound(rw) }
Recurse(sent, left) == Len(sent) = 0 /\ Len(left) > 0

\* sendOutbound returned nil: the rejected MIDs are reported and dropped from
\* sent; then handleOutbound calls itself or goes on to the turnover.
Out4ReportRejected ==
  /\ oPc = "bodies"
  /\ oIdx > Len(oBlock)
  /\ hSetSent' = hSetSent \cup
        { << mid, TRUE >> : mid \in { m \in SentMids(oSent) : SentRejected(oSent, m) } }
  /\ oSent' = SelectSeq(oSent, LAMBDA e : ~SentRejected(oSent, e[1]))
  /\ outbox' = OutboundLeft(outbox, hSetSent', hDeferred)
  /\ hSetRobust' = SetRobust(hSetRobust, TRUE, oWire)
  /\ IF Recurse(oSent', outbox')
     THEN /\ BlocksWritten(oWire) < MaxOutBlocks
          /\ oPc' = "start"
     ELSE oPc' = "turnover4"
  /\ UNCHANGED << remoteNoMsgs, oWire, oBlock, oIdx, oErr, oQuitSent, hDeferred, trafficSent >>
  /\ UNCHANGED rwVars
  /\ UNCHANGED << ansVars, frVars, inVars, lzVars, xVars, moreVars >>

\* The turnover switch of the earlier revision.
Out4Turnover ==
  /\ oPc = "turnover4"
  /\ IF Len(oSent) > 0
     THEN /\ oPc' = "peek"
          /\ UNCHANGED << oWire, oQuitSent >>
     ELSE IF remoteNoMsgs
     THEN /\ oWire' = Append(oWire, Str(<<"F", "Q">>) \o << CR >>)
          /\ oQuitSent' = TRUE
          /\ oPc' = "done"
     ELSE /\ oWire' = Append(oWire, Str(<<"F", "F">>) \o << CR >>)
          /\ oPc' = "peek"
          /\ UNCHANGED oQuitSent
  /\ UNCHANGED << outbox, remoteNoMsgs, oBlock, oIdx, oSent, oErr, hSetSent, hDeferred,
                  trafficSent >>
  /\ UNCHANGED << rwVars, hSetRobust >>
  /\ UNCHANGED << ansVars, frVars, inVars, lzVars, xVars, moreVars >>

Out4Next ==
  \/ OutSendProposals
  \/ Out4NothingToSend
  \/ OutAnswerLine
  \/ OutAnswerFails
  \/ OutBody
  \/ Out4ReportRejected
  \/ Out4Turnover
  \/ OutPeek
  \/ OutPeekFails

SpecOut4 == Out4Init /\ [][Out4Next]_vars

\* C33: within one call of handleOutbound no message is proposed in two
\* blocks, whatever the remote answers (Defer for every proposal and fewer
\* answers than proposals included), and another block is proposed only
\* after a block whose proposals were all rejected.
C33_OneBlockPerMessage ==
  /\ \A i, j \in 1..Len(oWire) :
       (i < j /\ IsProposalWrite(oWire[i])) => oWire[i] # oWire[j]
  /\ (oPc = "start" /\ oBlock # << >>) =>
       \A i \in 1..Len(oBlock) : oBlock[i].answer = Reject

(***************************************************************************)
(* Exchange of a master and a client session whose handleOutbound and      *)
(* handleInbound are the ones of the earlier revision: handleOutbound      *)
(* proposes again when the block left nothing in sent, handleInbound reads *)
(* on when it accepted nothing.  The handlers answer as they like.         *)
(***************************************************************************)

MaxTurnQueue == 6     \* longest outbound queue of the master

\* The lengths of the outbound queue of the client.
TurnClientQueues == {0, 1}

TurnInit ==
  /\ MoreIdle
  /\ AnsIdle
  /\ OutIdle
  /\ FrIdle
  /\ InIdle
  /\ LzIdle
  /\ remoteNoMsgs = FALSE
  /\ \E n \in 0..MaxTurnQueue, k \in TurnClientQueues, mh, ch \in BOOLEAN :
       /\ ~mh => n = 0
       /\ ~ch => k = 0
       /\ xSess = [s \in Sides |->
             IF s = "master"
             THEN NewSession(Str(<<"N", "0", "C", "A", "L", "L">>),
                             Str(<<"L", "A", "5", "N", "T", "A">>), TRUE, mh,
                             [i \in 1..n |-> CatalogProposal(i)], {})
             ELSE NewSession(Str(<<"L", "A", "5", "N", "T", "A">>),
                             Str(<<"N", "0", "C", "A", "L", "L">>), FALSE, ch,
                             [i \in 1..k |-> CatalogProposal(MaxTurnQueue + 3 + i)], {})]
  /\ xPipe = [s \in Sides |-> << >>]
  /\ xRd = [s \in Sides |-> << >>]
  /\ xWq = [s \in Sides |-> << >>]
  /\ xWire = [s \in Sides |-> << >>]

\* A handleOutbound that takes the turnover as implied after every block.
AfterBlockImplied(sess) == [writes |-> << >>, sess |-> [sess EXCEPT !.pc = "out_peek"]]

\* handleOutbound after sendOutbound and the report of the rejected MIDs:
\* it calls itself when sent is empty and the mailbox has outbound messages
\* left; else the turnover is implied when sent is not empty, FQ is written
\* when the remote has no messages, and FF otherwise.
AfterBlock(sess) ==
  IF Len(sess.sent) = 0 /\ Len(outbound(sess)) > 0
  THEN [writes |-> << >>, sess |-> [sess EXCEPT !.pc = "out"]]
  ELSE IF Len(sess.sent) > 0
  THEN [writes |-> << >>, sess |-> [sess EXCEPT !.pc = "out_peek"]]
  ELSE IF sess.remoteNoMsgs
  THEN [writes |-> << Str(<<"F", "Q">>) \o << CR >> >>,
        sess   |-> [sess EXCEPT !.pc = "done", !.quitSent = TRUE]]
  ELSE [writes |-> << Str(<<"F", "F">>) \o << CR >> >>,
        sess   |-> [sess EXCEPT !.pc = "out_peek"]]

\* sendOutbound from the answer line on, and handleOutbound up to Peek or to
\* its call of itself.
TurnReadAnswer(s) ==
  /\ xSess[s].pc = "out_answer"
  /\ Unblocked(s)
  /\ Avail(s) # << >>
  /\ LET Sent(sess, acc) ==
           LET rejected == { mid \in SentMids(acc.sent) : SentRejected(acc.sent, mid) }
               reported == [sess EXCEPT
                              !.deferred = @ \cup acc.deferred,
                              !.sent = SelectSeq(acc.sent, LAMBDA e : e[1] \notin rejected),
                              !.hSetSent = @ \cup { << mid, TRUE >> : mid \in rejected },
                              !.outbox = WithoutMids(@, rejected)]
           IN  ReadStep(s, AfterBlock(reported).sess,
                        acc.writes \o AfterBlock(reported).writes, Tail(Avail(s)))
         Parsed(sess, res) ==
           IF res.err # ""
           THEN ReadStep(s, Failed(sess, "Unable to parse proposal answer"), << >>,
                         Tail(Avail(s)))
           ELSE Sent([sess EXCEPT !.outbound = res.props],
                     SendLoop(res.props, 1, [deferred |-> {}, sent |-> << >>, writes |-> << >>]))
         Answer(sess, line) ==
           IF HasPrefix(line, Str(<<"F", "S", " ">>))
           THEN Parsed(sess, parseProposalAnswer(line, sess.outbound))
           ELSE IF HasPrefix(line, Str(<<";">>))
           THEN ReadStep(s, sess, << >>, Tail(Avail(s)))
           ELSE ReadStep(s, Failed(sess, "Expected proposal answer from remote"), << >>,
                         Tail(Avail(s)))
     IN  Answer(xSess[s], Line(Head(Avail(s))))

\* What GetInboundAnswer may return.
InboundAnswers == {Accept, Reject, Defer}

\* handleInbound of the earlier revision, one line of its read loop.  After
\* an answered block without an accept it calls itself; after the loop
\* remoteNoMsgs is set, and cleared when a proposal was accepted.
TurnReadLine(s) ==
  /\ xSess[s].pc = "in"
  /\ Unblocked(s)
  /\ Avail(s) # << >>
  /\ LET Next(sess, writes) == ReadStep(s, sess, writes, Tail(Avail(s)))
         Answered(sess, props) ==
           Next(IF NextAccepted(props, 0) = 0
                THEN [sess EXCEPT !.proposals = << >>, !.ourChecksum = 0]
                ELSE [sess EXCEPT !.proposals = props, !.pc = "in_body",
                                  !.remoteNoMsgs = FALSE,
                                  !.fetch = NextAccepted(props, 0)],
                << AnswerWrite(props) >>)
         Prompt(sess, line) ==
           IF ~PromptMatches(ParseHex(Drop(line, 3)), NegLow8(sess.ourChecksum))
           THEN Next(Failed(sess, "Checksum error"), << >>)
           ELSE IF Len(sess.proposals) = 0
           THEN Next(InboundReturns(sess), << >>)
           ELSE \E answers \in [1..Len(Unanswered(sess.proposals, sess.handler))
                                  -> InboundAnswers] :
                  Answered(sess, AnsweredProposals(sess.proposals, sess.handler, answers))
         Proposal(sess, line, res) ==
           IF res.err # ""
           THEN Next(Failed(sess, res.err), << >>)
           ELSE Next([sess EXCEPT !.ourChecksum = @ + LineSum(line),
                                  !.proposals = Append(@, res.prop)],
                     << >>)
         Handle(sess, line) ==
           IF line = << >> \/ line[1] = Asc[";"]
           THEN Next(sess, << >>)
           ELSE IF Len(line) < 2 \/ line[1] # Asc["F"]
           THEN Next(Failed(sess, "Got unexpected protocol line"), << >>)
           ELSE IF line[2] \in {Asc["A"], Asc["B"], Asc["C"], Asc["D"]}
           THEN Proposal(sess, line, parseProposal(line))
           ELSE IF line[2] = Asc["F"]
           THEN Next(InboundReturns([sess EXCEPT !.remoteNoMsgs = TRUE]), << >>)
           ELSE IF line[2] = Asc["Q"]
           THEN Next(InboundReturns([sess EXCEPT !.quitReceived = TRUE,
                                                 !.remoteNoMsgs = TRUE]), << >>)
           ELSE IF line[2] = Asc[">"]
           THEN Prompt(sess, line)
           ELSE Next(Failed(sess, "Unknown protocol command"), << >>)
     IN  Handle(xSess[s], Line(Head(Avail(s))))

\* A step of the goroutine that runs Exchange on side s.
TurnStep(s) ==
  \/ PipeWrite(s)
  \/ WriteHandshake(s)
  \/ ReadHandshake(s)
  \/ ProposeOrTurnover(s)
  \/ TurnReadAnswer(s)
  \/ PeekFirstByte(s)
  \/ TurnReadLine(s)
  \/ ReadBody(s)

TurnNext == \E s \in Sides : TurnStep(s)

\* Side s took a step: its session, its reader or its queue of writes
\* changed, or it read what waited in the pipe.
SideMoved(s) ==
  \/ xSess'[s] # xSess[s]
  \/ xRd'[s] # xRd[s]
  \/ xWq'[s] # xWq[s]
  \/ xPipe[s] # << >> /\ xPipe'[s] = << >>

\* The two goroutines are scheduled fairly: weak fairness of TurnStep(s),
\* which is enabled exactly when CanStep(s) holds and whose steps are the
\* ones in which side s moves.
SpecTurns ==
  /\ TurnInit
  /\ [][TurnNext]_vars
  /\ \A s \in Sides : ([]<>(~CanStep(s)) \/ []<><<SideMoved(s)>>_vars)

\* Side s is in its send-proposals phase: handleOutbound has not yet read
\* for the first byte after its turnover.
Sending(s) ==
  \/ xSess[s].pc \in {"out", "out_answer"}
  \/ xSess[s].pc = "out_peek" /\ ~Unblocked(s)

\* Side s is blocked in a read: nothing is there for it to read.
WaitingToRead(s) ==
  /\ xSess[s].pc \in {"hs_read", "out_answer", "out_peek", "in", "in_body"}
  /\ Unblocked(s)
  /\ Avail(s) = << >>

\* One side wrote FQ and the other read it.
QuitExchanged ==
  \E s \in Sides :
    /\ xSess[s].quitSent
    /\ xSess[Peer(s)].quitReceived
    /\ xWire[s][Len(xWire[s])] = Str(<<"F", "Q">>) \o << CR >>
    /\ ~xSess[Peer(s)].quitSent

\* C34: a master and a client session on a synchronous pipe, with any
\* outbound queues and any answers of the handlers: the two sides are never
\* both in the send-proposals phase and never both blocked in a read, and
\* in the end both have returned from Exchange, without an error, after one
\* side wrote FQ.
C34_TurnsAlternate ==
  /\ [](~(Sending("client") /\ Sending("master")))
  /\ [](~(WaitingToRead("client") /\ WaitingToRead("master")))
  /\ [](\A s \in Sides : xSess[s].err = "")
  /\ []((\A s \in Sides : Returned(s)) => QuitExchanged)
  /\ <>[](BothReturned /\ QuitExchanged)

\* Both sides returned after the master proposed a second block in one turn,
\* one of its messages was deferred, and messages went both ways.
C34_Witness ==
  /\ BothReturned
  /\ QuitExchanged
  /\ Cardinality(xSess["master"].deferred) = 1
  /\ Cardinality(xSess["master"].trafficSent) = 1
  /\ Cardinality(xSess["master"].hSetSent) = 6 - 1
  /\ Len(xSess["master"].trafficReceived) = 1
  /\ Cardinality({ i \in 1..Len(xWire["master"]) : IsPromptWrite(xWire["master"][i]) }) = 2


(***************************************************************************)
(* SpecChunks: the writes of writeCompressed for a body and an offset      *)
(***************************************************************************)

MaxChunkLen  == 8      \* short bodies have 5..MaxChunkLen bytes
MaxChunkSeed == 1      \* byte patterns of the bodies

\* Body lengths below lzhuf's smallest, short ones, and around one and two
\* full chunks.
ChunkLens == (5..MaxChunkLen) \cup {124, 125, 126, 127, 250, 251}

\* The offsets a peer asks for with a body of n bytes: the ends, one chunk
\* before the end, and the two just outside the body.
ChunkOffsets(n) == {o \in {-1, 0, 1, n - 125, n - 1, n, n + 1} : o >= -1}

ChUnchangedOthers ==
  UNCHANGED << ansVars, sessVars, outVars, frVars, inVars, lzVars, xVars, stVars, lztVars,
               sortVars, regVars, dlVars, dxVars, lnVars, flVars >>

ChInit ==
  /\ AnsIdle
  /\ OutIdle
  /\ FrIdle
  /\ InIdle
  /\ LzIdle
  /\ XIdle
  /\ StIdle
  /\ LztIdle
  /\ SortIdle
  /\ RegIdle
  /\ DlIdle
  /\ DxIdle
  /\ LnIdle
  /\ FlIdle
  /\ remoteNoMsgs = FALSE
  /\ \E n \in ChunkLens, seed \in 0..MaxChunkSeed :
        \E off \in ChunkOffsets(n) :
           chProp = [NewProposal(Asc["C"], Str(<<"E", "M">>), Mid(seed), 500 + n,
                                 Body(n, seed), Str(<<"T">>) \o FmtDec(seed))
                       EXCEPT !.offset = off, !.answer = Accept]
  /\ chWrites = << >>
  /\ chErr = ""
  /\ chPc = "call"

\* writeCompressed on a connection that takes every write.
writeCompressed ==
  /\ chPc = "call"
  /\ IF chProp.compressedSize < 6
     THEN /\ chWrites' = << FrameHeader(chProp) >>
          /\ chErr' = "Invalid compressed data"
          /\ chPc' = "done"
     ELSE IF chProp.offset < 0 \/ chProp.offset > Len(chProp.compressedData)
     THEN \* p.compressedData[p.offset:] is out of range
          /\ chWrites' = << FrameHeader(chProp) >>
          /\ chPc' = "panic"
          /\ UNCHANGED chErr
     ELSE /\ chWrites' = FrameWrites(chProp)
          /\ chErr' = ""
          /\ chPc' = "done"
  /\ UNCHANGED chProp
  /\ ChUnchangedOthers

\* The caller takes the result and calls again with the offset of the next
\* request for the same body.
ChAgain ==
  /\ chPc \in {"done", "panic"}
  /\ \E off \in ChunkOffsets(Len(chProp.compressedData)) :
        /\ off # chProp.offset
        /\ chProp' = [chProp EXCEPT !.offset = off]
  /\ chWrites' = << >>
  /\ chErr' = ""
  /\ chPc' = "call"
  /\ ChUnchangedOthers

ChNext == writeCompressed \/ ChAgain

SpecChunks == ChInit /\ [][ChNext]_vars

\* The offset field of a header write: the bytes between its two NULs.
HeaderOffsetText(w) ==
  LET nul == IndexFrom(w, 3, NUL)
  IN  SubSeq(w, nul + 1, Len(w) - 1)

\* The STX chunks among the writes of a call that returned nil.
ChunkWrites == SubSeq(chWrites, 2, Len(chWrites) - 1)

ChunkData == Concat([i \in 1..Len(ChunkWrites) |-> Drop(ChunkWrites[i], 2)])

ChunkLenSum == SumBytes([i \in 1..Len(ChunkWrites) |-> ChunkWrites[i][2]])

\* C35: writeCompressed sends the body bytes from the requested offset to the
\* end, in order, as STX chunks of exactly MaxMsgLength = 125 data bytes but
\* for a possibly shorter last chunk; no chunk is empty, the chunk lengths sum
\* to compressedSize minus offset, the header carries the offset in decimal,
\* and each flush carries at most one chunk (at most 127 bytes).
C35_ChunksFromOffset ==
  /\ chPc \in {"done", "panic"} =>
        /\ Len(chWrites) >= 1
        /\ chWrites[1][1] = SOH
        /\ chWrites[1][Len(chWrites[1])] = NUL
        /\ ~AtoiErr(HeaderOffsetText(chWrites[1]))
        /\ Atoi(HeaderOffsetText(chWrites[1])) = chProp.offset
        /\ HeaderOffsetText(chWrites[1]) = FmtDec(chProp.offset)
  /\ (chPc = "done" /\ chErr = "") =>
        /\ Len(chWrites) >= 2
        /\ \A i \in 1..Len(ChunkWrites) :
              /\ ChunkWrites[i][1] = STX
              /\ ChunkWrites[i][2] = Len(ChunkWrites[i]) - 2
              /\ ChunkWrites[i][2] >= 1
              /\ ChunkWrites[i][2] <= MaxMsgLength
              /\ i < Len(ChunkWrites) => ChunkWrites[i][2] = MaxMsgLength
              /\ Len(ChunkWrites[i]) <= 127
        /\ ChunkData = Drop(chProp.compressedData, chProp.offset)
        /\ ChunkLenSum = chProp.compressedSize - chProp.offset
        /\ Len(chWrites[Len(chWrites)]) = 2
        /\ chWrites[Len(chWrites)][1] = EOT

\* A body of 251 bytes asked for from offset 1: two full chunks.
C35_Witness ==
  /\ chPc = "done"
  /\ chErr = ""
  /\ chProp.compressedSize = 251
  /\ chProp.offset = 1
  /\ Len(ChunkWrites) = 2
  /\ ChunkWrites[2][2] = MaxMsgLength


(***************************************************************************)
(* SpecDemux: one AGWPE demux, its callers and its subscribers             *)
(***************************************************************************)

MaxDxFrames == 2       \* calls of Enqueue on an open demux

\* The goroutine that feeds the demux (TNC.run, or the goroutine of Chain)
\* and one that subscribes to it as newConn does, with one request for the
\* next disconnect frame and one for the data frames.
DxCallers == {"feed", "sub"}

kindConnect       == "C"
kindDisconnect    == "d"
kindConnectedData == "D"

\* cap(d.in)
DxInCap == 1

\* a nil port pointer and the zero callsign of a framesFilter
NoPort == -1
NoCall == ""

NoFrame == [Port |-> 0, From |-> NoCall, To |-> NoCall, DataKind |-> "", n |-> 0]

\* The n-th frame given to Enqueue.
DxFrame(k, n) == [Port |-> 0, From |-> "LA1B", To |-> "LA5NTA", DataKind |-> k, n |-> n]

FramesFilter(kinds, call) == [kinds |-> kinds, port |-> NoPort, call |-> call, to |-> NoCall]

Want(f, frame) ==
  IF f.port # NoPort /\ f.port # frame.Port THEN FALSE
  ELSE IF f.call # NoCall /\ ~(f.call = frame.From \/ f.call = frame.To) THEN FALSE
  ELSE IF f.to # NoCall /\ ~(f.to = frame.To) THEN FALSE
  ELSE IF Len(f.kinds) = 0 THEN TRUE
  ELSE \E i \in 1..Len(f.kinds) : frame.DataKind = f.kinds[i]

\* A framesReq: resp is a channel of capacity bufSize holding buf, closed
\* closes times; done is closed by Cancel; got is what was received from
\* resp; badSend records a send on resp after its close.
newFramesReq(bufSize, filter, once) ==
  [filter |-> filter, once |-> once, cap |-> bufSize, buf |-> << >>, closes |-> 0,
   done |-> FALSE, got |-> << >>, badSend |-> FALSE]

\* c := make(chan frame); close(c)
ClosedChan ==
  [newFramesReq(0, FramesFilter(<< >>, NoCall), TRUE) EXCEPT !.closes = 1]

NoOp == [name |-> "", kind |-> "", filter |-> FramesFilter(<< >>, NoCall), bufSize |-> 0, id |-> 0]

NoRet == [ok |-> FALSE, ch |-> 0]

DxOps(c) ==
  IF c = "feed"
  THEN {[NoOp EXCEPT !.name = "Enqueue", !.kind = k] : k \in {kindConnectedData, kindDisconnect}}
         \cup {[NoOp EXCEPT !.name = "Close"]}
  ELSE {[NoOp EXCEPT !.name = n] : n \in {"Close", "isClosed"}}
         \cup {[NoOp EXCEPT !.name = "NextFrame", !.filter = FramesFilter(<< kindDisconnect >>, NoCall),
                            !.bufSize = 1]}
         \cup {[NoOp EXCEPT !.name = "Frames", !.filter = FramesFilter(<< kindConnectedData >>, NoCall),
                            !.bufSize = b] : b \in {0, 1}}

DxUnchangedOthers ==
  UNCHANGED << ansVars, sessVars, outVars, frVars, inVars, lzVars, xVars, stVars, lztVars,
               sortVars, regVars, dlVars, chVars, lnVars, flVars >>

\* newDemux()
newDemux ==
  /\ dxClosed = FALSE
  /\ dxIn = << >>
  /\ dxMu = ""
  /\ dxChans = << >>
  /\ dxClients = << >>
  /\ dxRunPc = "select"
  /\ dxF = NoFrame
  /\ dxI = 0
  /\ dxEnq = 0

DxInit ==
  /\ AnsIdle
  /\ OutIdle
  /\ FrIdle
  /\ InIdle
  /\ LzIdle
  /\ XIdle
  /\ StIdle
  /\ LztIdle
  /\ SortIdle
  /\ RegIdle
  /\ DlIdle
  /\ ChIdle
  /\ LnIdle
  /\ FlIdle
  /\ remoteNoMsgs = FALSE
  /\ newDemux
  /\ dxPc = [c \in DxCallers |-> "idle"]
  /\ dxOp = [c \in DxCallers |-> NoOp]
  /\ dxRet = [c \in DxCallers |-> NoRet]
  /\ dxEOF = FALSE
  /\ dxTear = "none"
  /\ dxRecvd = << >>

Pending(names) == {c \in DOMAIN dxPc : dxPc[c] = "call" /\ dxOp[c].name \in names}

\* A goroutine calls an operation of the demux.
DxCall(c) ==
  /\ dxPc[c] = "idle"
  /\ \E op \in DxOps(c) :
        /\ op.name = "Enqueue" =>
              dxEnq + Cardinality(Pending({"Enqueue"})) < MaxDxFrames
        /\ op.name \in {"NextFrame", "Frames"} =>
              \A i \in 1..Len(dxChans) : dxChans[i].once # (op.name = "NextFrame")
        /\ dxOp' = [dxOp EXCEPT ![c] = op]
  /\ dxPc' = [dxPc EXCEPT ![c] = "call"]
  /\ dxRet' = [dxRet EXCEPT ![c] = NoRet]
  /\ UNCHANGED << dxClosed, dxIn, dxMu, dxChans, dxClients, dxRunPc, dxF, dxI, dxEnq,
                  dxEOF, dxTear, dxRecvd >>
  /\ DxUnchangedOthers

\* The caller c holds d.mu from here to its return.
Locks(c, name) ==
  /\ dxPc[c] = "call"
  /\ dxOp[c].name = name
  /\ dxMu = ""

Returns(c, ret) ==
  /\ dxPc' = [dxPc EXCEPT ![c] = "idle"]
  /\ dxOp' = [dxOp EXCEPT ![c] = NoOp]
  /\ dxRet' = [dxRet EXCEPT ![c] = ret]

\* d.in <- f with a default case
EnqueueIn(in, f) == IF Len(in) < DxInCap THEN Append(in, f) ELSE in

demuxEnqueue(c) ==
  /\ Locks(c, "Enqueue")
  /\ IF dxClosed
     THEN /\ Returns(c, [NoRet EXCEPT !.ok = FALSE])
          /\ UNCHANGED << dxIn, dxEnq >>
     ELSE /\ dxIn' = EnqueueIn(dxIn, DxFrame(dxOp[c].kind, dxEnq + 1))
          /\ dxEnq' = dxEnq + 1
              /\ Returns(c, [NoRet EXCEPT !.ok = TRUE])
  /\ UNCHANGED << dxClosed, dxMu, dxChans, dxClients, dxRunPc, dxF, dxI, dxEOF, dxTear, dxRecvd >>
  /\ DxUnchangedOthers

demuxClose(c) ==
  /\ Locks(c, "Close")
  /\ dxClosed' = TRUE
  /\ Returns(c, NoRet)
  /\ UNCHANGED << dxIn, dxMu, dxChans, dxClients, dxRunPc, dxF, dxI, dxEnq, dxEOF, dxTear, dxRecvd >>
  /\ DxUnchangedOthers

demuxIsClosed(c) ==
  /\ Locks(c, "isClosed")
  /\ Returns(c, [NoRet EXCEPT !.ok = dxClosed])
  /\ UNCHANGED << dxClosed, dxIn, dxMu, dxChans, dxClients, dxRunPc, dxF, dxI, dxEnq,
                  dxEOF, dxTear, dxRecvd >>
  /\ DxUnchangedOthers

\* The request is made and the caller blocks in d.requests <- req with d.mu held.
SendsRequest(c, req) ==
  /\ dxChans' = Append(dxChans, req)
  /\ dxOp' = [dxOp EXCEPT ![c].id = Len(dxChans) + 1]
  /\ dxPc' = [dxPc EXCEPT ![c] = "sending"]
  /\ dxMu' = c
  /\ UNCHANGED dxRet

demuxNextFrame(c) ==
  /\ Locks(c, "NextFrame")
  /\ IF dxClosed
     THEN /\ dxChans' = Append(dxChans, ClosedChan)
          /\ Returns(c, [NoRet EXCEPT !.ch = Len(dxChans) + 1])
          /\ UNCHANGED dxMu
     ELSE SendsRequest(c, newFramesReq(1, dxOp[c].filter, TRUE))
  /\ UNCHANGED << dxClosed, dxIn, dxClients, dxRunPc, dxF, dxI, dxEnq, dxEOF, dxTear, dxRecvd >>
  /\ DxUnchangedOthers

demuxFrames(c) ==
  /\ Locks(c, "Frames")
  /\ IF dxClosed
     THEN /\ Returns(c, NoRet)
          /\ UNCHANGED << dxMu, dxChans >>
     ELSE SendsRequest(c, newFramesReq(dxOp[c].bufSize, dxOp[c].filter, FALSE))
  /\ UNCHANGED << dxClosed, dxIn, dxClients, dxRunPc, dxF, dxI, dxEnq, dxEOF, dxTear, dxRecvd >>
  /\ DxUnchangedOthers

\* run: case c := <-d.requests; the sender returns req.resp and unlocks d.mu.
RunRequest ==
  /\ dxRunPc = "select"
  /\ \E c \in DOMAIN dxPc :
        /\ dxPc[c] = "sending"
        /\ dxClients' = Append(dxClients, dxOp[c].id)
        /\ Returns(c, [NoRet EXCEPT !.ch = dxOp[c].id])
  /\ dxMu' = ""
  /\ UNCHANGED << dxClosed, dxIn, dxChans, dxRunPc, dxF, dxI, dxEnq, dxEOF, dxTear, dxRecvd >>
  /\ DxUnchangedOthers

\* run: case f, ok := <-d.in with ok
RunFrame ==
  /\ dxRunPc = "select"
  /\ dxIn # << >>
  /\ dxF' = Head(dxIn)
  /\ dxIn' = Tail(dxIn)
  /\ dxI' = 1
  /\ dxRunPc' = "deliver"
  /\ UNCHANGED << dxClosed, dxMu, dxPc, dxOp, dxRet, dxChans, dxClients, dxEnq, dxEOF, dxTear, dxRecvd >>
  /\ DxUnchangedOthers

\* run: case f, ok := <-d.in with !ok
RunClosing ==
  /\ dxRunPc = "select"
  /\ dxIn = << >>
  /\ dxClosed
  /\ dxChans' = [i \in 1..Len(dxChans) |->
                   IF \E k \in 1..Len(dxClients) : dxClients[k] = i
                   THEN [dxChans[i] EXCEPT !.closes = @ + 1]
                   ELSE dxChans[i]]
  /\ dxClients' = << >>
  /\ dxRunPc' = "exited"
  /\ UNCHANGED << dxClosed, dxIn, dxMu, dxPc, dxOp, dxRet, dxF, dxI, dxEnq, dxEOF, dxTear, dxRecvd >>
  /\ DxUnchangedOthers

AtClient ==
  /\ dxRunPc = "deliver"
  /\ dxI <= Len(dxClients)

RemoveKept(clients, i) == clients

\* clients = append(clients[:i], clients[i+1:]...), i counted from 1
Remove(clients, i) == SubSeq(clients, 1, i - 1) \o SubSeq(clients, i + 1, Len(clients))

\* close(c.resp); the client leaves the list; i-- and the loop's i++
CloseClient(chans) ==
  /\ dxChans' = [chans EXCEPT ![dxClients[dxI]].closes = @ + 1]
  /\ dxClients' = Remove(dxClients, dxI)
  /\ UNCHANGED dxI

\* The loop over the clients ends, or the client does not want the frame.
RunNext ==
  /\ dxRunPc = "deliver"
  /\ IF dxI > Len(dxClients)
     THEN /\ dxRunPc' = "select"
          /\ UNCHANGED dxI
     ELSE /\ ~Want(dxChans[dxClients[dxI]].filter, dxF)
          /\ dxI' = dxI + 1
          /\ UNCHANGED dxRunPc
  /\ UNCHANGED << dxClosed, dxIn, dxMu, dxPc, dxOp, dxRet, dxChans, dxClients, dxF, dxEnq,
                  dxEOF, dxTear, dxRecvd >>
  /\ DxUnchangedOthers

\* What run does after case c.resp <- f, the channels being chans.
AfterSend(chans) ==
  IF ~chans[dxClients[dxI]].once
  THEN /\ dxChans' = chans
       /\ dxI' = dxI + 1
       /\ UNCHANGED dxClients
  ELSE CloseClient(chans)

Sent(ch, f) == [ch EXCEPT !.buf = Append(@, f), !.badSend = @ \/ ch.closes > 0]

Received(ch, f) == [ch EXCEPT !.got = Append(@, f), !.badSend = @ \/ ch.closes > 0]

\* run: case c.resp <- f into the buffer of resp
RunSend ==
  /\ AtClient
  /\ LET id == dxClients[dxI]
     IN  /\ Want(dxChans[id].filter, dxF)
         /\ Len(dxChans[id].buf) < dxChans[id].cap
         /\ AfterSend([dxChans EXCEPT ![id] = Sent(@, dxF)])
  /\ UNCHANGED << dxClosed, dxIn, dxMu, dxPc, dxOp, dxRet, dxRunPc, dxF, dxEnq, dxEOF, dxTear, dxRecvd >>
  /\ DxUnchangedOthers

\* run: case c.resp <- f to a subscriber that is receiving from an unbuffered resp
RunHandoff ==
  /\ AtClient
  /\ LET id == dxClients[dxI]
     IN  /\ Want(dxChans[id].filter, dxF)
         /\ dxChans[id].cap = 0
         /\ AfterSend([dxChans EXCEPT ![id] = Received(@, dxF)])
  /\ UNCHANGED << dxClosed, dxIn, dxMu, dxPc, dxOp, dxRet, dxRunPc, dxF, dxEnq, dxEOF, dxTear, dxRecvd >>
  /\ DxUnchangedOthers

\* run: case <-c.done
RunDone ==
  /\ AtClient
  /\ Want(dxChans[dxClients[dxI]].filter, dxF)
  /\ dxChans[dxClients[dxI]].done
  /\ CloseClient(dxChans)
  /\ UNCHANGED << dxClosed, dxIn, dxMu, dxPc, dxOp, dxRet, dxRunPc, dxF, dxEnq, dxEOF, dxTear, dxRecvd >>
  /\ DxUnchangedOthers

\* A subscriber receives a frame from the buffer of its channel.
Receive(id) ==
  /\ dxChans[id].buf # << >>
  /\ dxChans' = [dxChans EXCEPT ![id].got = Append(@, Head(dxChans[id].buf)), ![id].buf = Tail(@)]
  /\ UNCHANGED << dxClosed, dxIn, dxMu, dxPc, dxOp, dxRet, dxClients, dxRunPc, dxF, dxI, dxEnq,
                  dxEOF, dxTear, dxRecvd >>
  /\ DxUnchangedOthers

\* req.Cancel, once, by the goroutine Frames returned it to
reqCancel(id) ==
  /\ ~dxChans[id].once
  /\ ~dxChans[id].done
  /\ \A c \in DOMAIN dxPc : ~(dxPc[c] = "sending" /\ dxOp[c].id = id)
  /\ dxChans' = [dxChans EXCEPT ![id].done = TRUE]
  /\ UNCHANGED << dxClosed, dxIn, dxMu, dxPc, dxOp, dxRet, dxClients, dxRunPc, dxF, dxI, dxEnq,
                  dxEOF, dxTear, dxRecvd >>
  /\ DxUnchangedOthers

\* The steps run takes on its own.
DxRun == RunRequest \/ RunFrame \/ RunClosing \/ RunNext \/ RunSend \/ RunDone

\* The steps of a caller from d.mu.Lock on.
DxLocked(c) == demuxEnqueue(c) \/ demuxClose(c) \/ demuxIsClosed(c) \/ demuxNextFrame(c) \/ demuxFrames(c)

DxNext ==
  \/ \E c \in DxCallers : DxCall(c)
  \/ \E c \in DxCallers : demuxEnqueue(c)
  \/ \E c \in DxCallers : demuxClose(c)
  \/ \E c \in DxCallers : demuxIsClosed(c)
  \/ \E c \in DxCallers : demuxNextFrame(c)
  \/ \E c \in DxCallers : demuxFrames(c)
  \/ RunRequest
  \/ RunFrame
  \/ RunClosing
  \/ RunNext
  \/ RunSend
  \/ RunHandoff
  \/ RunDone
  \/ \E id \in 1..Len(dxChans) : Receive(id)
  \/ \E id \in 1..Len(dxChans) : reqCancel(id)

SpecDemux == DxInit /\ [][DxNext]_vars

\* The goroutine of run and every caller are scheduled; d.mu is handed to a
\* caller that keeps asking for it.  Nothing is assumed of the subscribers.
SpecDemuxFair ==
  /\ DxInit
  /\ [][DxNext]_vars
  /\ WF_vars(DxRun)
  /\ \A c \in DxCallers : SF_vars(DxLocked(c))

\* C36: every operation of the demux that was called returns, whatever the
\* subscribers do.
C36_OperationsReturn ==
  \A c \in DxCallers : (dxPc[c] # "idle") ~> (dxPc[c] = "idle")


\* Caller c returns from the operation name in this step.
ReturnsFrom(c, name) ==
  /\ dxPc[c] # "idle"
  /\ dxOp[c].name = name
  /\ dxPc'[c] = "idle"

DemuxUntouched == UNCHANGED << dxClosed, dxIn, dxChans, dxClients, dxRunPc, dxF, dxI >>

\* C37: every channel handed out by NextFrame or Frames is closed at most
\* once, and only after the single frame of a NextFrame, after its Cancel, or
\* when the demux closes, which closes every one of them; no frame is sent on
\* a closed channel; after Close, Enqueue returns false and delivers nothing,
\* NextFrame returns a channel that is closed already, and Close changes
\* nothing.
C37_SubscriberChannelsClosedOnce ==
  /\ [](\A i \in 1..Len(dxChans) :
          /\ dxChans[i].closes <= 1
          /\ ~dxChans[i].badSend
          /\ dxChans[i].closes = 1 =>
                \/ dxRunPc = "exited"
                \/ dxChans[i] = ClosedChan
                \/ dxChans[i].once /\ Len(dxChans[i].buf) + Len(dxChans[i].got) = 1
                \/ dxChans[i].done
          /\ dxRunPc = "exited" => dxChans[i].closes = 1)
  /\ [][\A c \in DxCallers :
          /\ (dxClosed /\ ReturnsFrom(c, "Enqueue")) =>
                (~dxRet'[c].ok /\ DemuxUntouched /\ UNCHANGED dxEnq)
          /\ (dxClosed /\ ReturnsFrom(c, "NextFrame")) =>
                (dxRet'[c].ch = Len(dxChans') /\ dxChans'[dxRet'[c].ch] = ClosedChan)
          /\ (dxClosed /\ ReturnsFrom(c, "Close")) => DemuxUntouched
          /\ (~dxClosed /\ ReturnsFrom(c, "Enqueue")) => dxRet'[c].ok]_vars

\* The demux has closed with both requests made: the data request was
\* cancelled and closed before, the other was given its frame, and a later
\* Enqueue returned false.
C37_Witness ==
  /\ dxRunPc = "exited"
  /\ Len(dxChans) = 2
  /\ \E i \in 1..2 : dxChans[i].done /\ ~dxChans[i].once /\ Len(dxChans[i].got) = 1
  /\ \E i \in 1..2 : dxChans[i].once /\ Len(dxChans[i].got) = 1
  /\ dxPc["feed"] = "idle"
  /\ dxEnq = MaxDxFrames
  /\ ~dxRet["feed"].ok


(***************************************************************************)
(* SpecConnFrames: the demux of a Conn, the read loop that feeds it, the   *)
(* teardown goroutine of newConn and Conn.Read                             *)
(***************************************************************************)

MaxConnFrames == 4     \* frames the read loop receives for the connection

\* the buffer size of the data frames request of newConn
DataBufSize == 10

\* The positions of the two requests of newConn in dxChans.
DisconnectReq == 1
DataReq       == 2

\* newConn: the demux of the connection with the request for the next
\* disconnect frame and the one for the data frames, and the teardown
\* goroutine started.
newConn ==
  /\ dxClosed = FALSE
  /\ dxIn = << >>
  /\ dxMu = ""
  /\ dxChans = << newFramesReq(1, FramesFilter(<< kindDisconnect >>, NoCall), TRUE),
                  newFramesReq(DataBufSize, FramesFilter(<< kindConnectedData >>, NoCall), FALSE) >>
  /\ dxClients = << DisconnectReq, DataReq >>
  /\ dxRunPc = "select"
  /\ dxF = NoFrame
  /\ dxI = 0
  /\ dxEnq = 0
  /\ dxTear = "wait"

CfInit ==
  /\ AnsIdle
  /\ OutIdle
  /\ FrIdle
  /\ InIdle
  /\ LzIdle
  /\ XIdle
  /\ StIdle
  /\ LztIdle
  /\ SortIdle
  /\ RegIdle
  /\ DlIdle
  /\ ChIdle
  /\ LnIdle
  /\ FlIdle
  /\ remoteNoMsgs = FALSE
  /\ newConn
  /\ dxPc = [c \in {"feed"} |-> "idle"]
  /\ dxOp = [c \in {"feed"} |-> NoOp]
  /\ dxRet = [c \in {"feed"} |-> NoRet]
  /\ dxEOF = FALSE
  /\ dxRecvd = << >>

\* The read loop receives a frame of the connection and gives it to Enqueue;
\* it ends when Enqueue returns false.
ReadLoop ==
  /\ dxPc["feed"] = "idle"
  /\ Len(dxRecvd) < MaxConnFrames
  /\ \E k \in {kindConnectedData, kindDisconnect} :
        IF dxClosed
        THEN /\ dxPc' = [dxPc EXCEPT !["feed"] = "exited"]
             /\ UNCHANGED << dxIn, dxEnq, dxRecvd >>
        ELSE /\ dxIn' = EnqueueIn(dxIn, DxFrame(k, dxEnq + 1))
             /\ dxEnq' = dxEnq + 1
             /\ dxRecvd' = Append(dxRecvd, k)
             /\ UNCHANGED dxPc
  /\ UNCHANGED << dxClosed, dxMu, dxOp, dxRet, dxChans, dxClients, dxRunPc, dxF, dxI, dxEOF, dxTear >>
  /\ DxUnchangedOthers

\* The read of the loop fails: the deferred Close runs down the chain.
ReadLoopFails ==
  /\ dxPc["feed"] = "idle"
  /\ dxPc' = [dxPc EXCEPT !["feed"] = "exited"]
  /\ dxClosed' = TRUE
  /\ UNCHANGED << dxIn, dxMu, dxOp, dxRet, dxChans, dxClients, dxRunPc, dxF, dxI, dxEnq, dxEOF,
                  dxTear, dxRecvd >>
  /\ DxUnchangedOthers

\* <-disconnect: a frame, or the channel was closed
TearWait ==
  /\ dxTear = "wait"
  /\ \/ /\ dxChans[DisconnectReq].buf # << >>
        /\ dxChans' = [dxChans EXCEPT ![DisconnectReq].got = Append(@, Head(dxChans[DisconnectReq].buf)),
                                      ![DisconnectReq].buf = Tail(@)]
     \/ /\ dxChans[DisconnectReq].buf = << >>
        /\ dxChans[DisconnectReq].closes > 0
        /\ UNCHANGED dxChans
  /\ dxTear' = "cancel"
  /\ UNCHANGED << dxClosed, dxIn, dxMu, dxPc, dxOp, dxRet, dxClients, dxRunPc, dxF, dxI, dxEnq,
                  dxEOF, dxRecvd >>
  /\ DxUnchangedOthers

\* cancelData()
TearCancel ==
  /\ dxTear = "cancel"
  /\ dxChans' = [dxChans EXCEPT ![DataReq].done = TRUE]
  /\ dxTear' = "close"
  /\ UNCHANGED << dxClosed, dxIn, dxMu, dxPc, dxOp, dxRet, dxClients, dxRunPc, dxF, dxI, dxEnq,
                  dxEOF, dxRecvd >>
  /\ DxUnchangedOthers

\* demux.Close()
TearClose ==
  /\ dxTear = "close"
  /\ dxMu = ""
  /\ dxClosed' = TRUE
  /\ dxTear' = "done"
  /\ UNCHANGED << dxIn, dxMu, dxPc, dxOp, dxRet, dxChans, dxClients, dxRunPc, dxF, dxI, dxEnq,
                  dxEOF, dxRecvd >>
  /\ DxUnchangedOthers

\* Conn.Read returns the data of the next frame.
ConnRead == Receive(DataReq)

\* Conn.Read finds dataFrames closed and empty.
ConnReadEOF ==
  /\ dxChans[DataReq].buf = << >>
  /\ dxChans[DataReq].closes > 0
  /\ ~dxEOF
  /\ dxEOF' = TRUE
  /\ UNCHANGED << dxClosed, dxIn, dxMu, dxPc, dxOp, dxRet, dxChans, dxClients, dxRunPc, dxF, dxI,
                  dxEnq, dxTear, dxRecvd >>
  /\ DxUnchangedOthers

CfNext ==
  \/ ReadLoop
  \/ ReadLoopFails
  \/ RunFrame
  \/ RunClosing
  \/ RunNext
  \/ RunSend
  \/ RunDone
  \/ TearWait
  \/ TearCancel
  \/ TearClose
  \/ ConnRead
  \/ ConnReadEOF

SpecConnFrames == CfInit /\ [][CfNext]_vars

\* The number of the first disconnect frame received, or one more than the
\* number of frames when there is none.
FirstDisconnect ==
  LET ds == {i \in 1..Len(dxRecvd) : dxRecvd[i] = kindDisconnect}
  IN  IF ds = {} THEN Len(dxRecvd) + 1 ELSE CHOOSE i \in ds : \A j \in ds : i <= j

\* The numbers of the data frames received before the peer's disconnect.
DataReceived ==
  LET IsData(i) == dxRecvd[i] = kindConnectedData /\ i < FirstDisconnect
  IN  SelectSeq([i \in 1..Len(dxRecvd) |-> i], IsData)

\* The numbers among ns that are of data frames received before the disconnect.
DataOf(frames) ==
  LET IsData(f) == f.DataKind = kindConnectedData /\ f.n < FirstDisconnect
  IN  [i \in 1..Len(SelectSeq(frames, IsData)) |-> SelectSeq(frames, IsData)[i].n]

\* The frame run has taken and not yet offered to the data request.
RunHolds ==
  IF dxRunPc = "deliver" /\ \E k \in dxI..Len(dxClients) : dxClients[k] = DataReq
  THEN << dxF >>
  ELSE << >>

\* C38: the data frames the read loop received for the open connection
\* before the peer's disconnect are those Read has returned, in order and
\* once each, followed by those still on their way to Read; and when Read
\* returns io.EOF it has returned them all.
C38_DataFramesReachRead ==
  /\ DataOf(dxChans[DataReq].got) \o DataOf(dxChans[DataReq].buf) \o DataOf(RunHolds) \o DataOf(dxIn)
       = DataReceived
  /\ dxEOF => DataOf(dxChans[DataReq].got) = DataReceived


(***************************************************************************)
(* SpecListener: Port.handleInbound, Listener.Accept and Listener.Close    *)
(***************************************************************************)

MaxLnFrames == 3       \* connect frames the demux of the port matches

Accepters == {"p", "q"}

MyCall39 == "LA5NTA"

\* []byte("*** CONNECTED To ") and the text of an outbound connect's answer
ConnectedTo   == << "*", "*", "*", " ", "C", "O", "N", "N", "E", "C", "T", "E", "D", " ", "T", "o", " " >>
ConnectedWith == << "*", "*", "*", " ", "C", "O", "N", "N", "E", "C", "T", "E", "D", " ", "W", "i", "t", "h", " " >>

\* The filter of the request of handleInbound.
ConnectsFilter == [kinds |-> << kindConnect >>, port |-> NoPort, call |-> NoCall, to |-> MyCall39]

\* cap(connects)
ConnectsCap == 1

ConnectFrames ==
  {[Port |-> 0, From |-> "LA1B", To |-> to, DataKind |-> kindConnect, n |-> 0, Data |-> d \o << "L", "A", "1", "B" >>] :
     to \in {MyCall39, "LA9X"}, d \in {ConnectedTo, ConnectedWith}}

NoConn == 0

LnUnchangedOthers ==
  UNCHANGED << ansVars, sessVars, outVars, frVars, inVars, lzVars, xVars, stVars, lztVars,
               sortVars, regVars, dlVars, chVars, dxVars, flVars >>

LnInit ==
  /\ AnsIdle
  /\ OutIdle
  /\ FrIdle
  /\ InIdle
  /\ LzIdle
  /\ XIdle
  /\ StIdle
  /\ LztIdle
  /\ SortIdle
  /\ RegIdle
  /\ DlIdle
  /\ ChIdle
  /\ DxIdle
  /\ FlIdle
  /\ remoteNoMsgs = FALSE
  /\ lnOffered = 0
  /\ lnConnects = << >>
  /\ lnConnectsClosed = FALSE
  /\ lnPortClosed = FALSE
  /\ lnDone = FALSE
  /\ lnHPc = "range"
  /\ lnConns = << >>
  /\ lnAPc = [a \in Accepters |-> "idle"]
  /\ lnARet = [a \in Accepters |-> [conn |-> NoConn, err |-> ""]]
  /\ lnAfter = [a \in Accepters |-> FALSE]

\* run of the port demux matches a connect frame against the request of
\* handleInbound and sends it when it is wanted.
PortFrame ==
  /\ ~lnConnectsClosed
  /\ lnOffered < MaxLnFrames
  /\ \E f \in ConnectFrames :
        IF Want(ConnectsFilter, f)
        THEN /\ Len(lnConnects) < ConnectsCap
             /\ lnConnects' = Append(lnConnects, f)
        ELSE UNCHANGED lnConnects
  /\ lnOffered' = lnOffered + 1
  /\ UNCHANGED << lnConnectsClosed, lnPortClosed, lnDone, lnHPc, lnConns, lnAPc, lnARet, lnAfter >>
  /\ LnUnchangedOthers

\* Port.Close, or the Close of the goroutine of Chain when the TNC has closed
PortClose ==
  /\ ~lnPortClosed
  /\ lnPortClosed' = TRUE
  /\ UNCHANGED << lnOffered, lnConnects, lnConnectsClosed, lnDone, lnHPc, lnConns, lnAPc, lnARet,
                  lnAfter >>
  /\ LnUnchangedOthers

\* run of the closed port demux closes the channels of its clients
PortRunExits ==
  /\ lnPortClosed
  /\ ~lnConnectsClosed
  /\ lnConnectsClosed' = TRUE
  /\ UNCHANGED << lnOffered, lnConnects, lnPortClosed, lnDone, lnHPc, lnConns, lnAPc, lnARet,
                  lnAfter >>
  /\ LnUnchangedOthers

\* handleInbound takes a frame from connects; newConn calls Chain on the
\* demux of the port, which panics when that demux is closed.
HandleFrame ==
  /\ lnHPc = "range"
  /\ lnConnects # << >>
  /\ lnConnects' = Tail(lnConnects)
  /\ IF ~HasPrefix(Head(lnConnects).Data, ConnectedTo)
     THEN UNCHANGED << lnHPc, lnConns >>
     ELSE IF lnPortClosed
     THEN /\ lnHPc' = "panic"
          /\ UNCHANGED lnConns
     ELSE /\ lnConns' = Append(lnConns, [returned |-> 0, closed |-> 0])
          /\ lnHPc' = "select"
  /\ UNCHANGED << lnOffered, lnConnectsClosed, lnPortClosed, lnDone, lnAPc, lnARet, lnAfter >>
  /\ LnUnchangedOthers

Waiting == {a \in Accepters : lnAPc[a] = "waiting"}

\* Whether the send on conns takes the default case: no Accept is receiving.
Refuse(waiting) == waiting = {}

\* case conns <- conn: the connection goes to an Accept that is receiving
HandOff ==
  /\ lnHPc = "select"
  /\ \E a \in Waiting :
        /\ lnARet' = [lnARet EXCEPT ![a] = [conn |-> Len(lnConns), err |-> ""]]
        /\ lnAPc' = [lnAPc EXCEPT ![a] = "idle"]
  /\ lnConns' = [lnConns EXCEPT ![Len(lnConns)].returned = @ + 1]
  /\ lnHPc' = "range"
  /\ UNCHANGED << lnOffered, lnConnects, lnConnectsClosed, lnPortClosed, lnDone, lnAfter >>
  /\ LnUnchangedOthers

\* default: conn.Close()
HandleRefuse ==
  /\ lnHPc = "select"
  /\ Refuse(Waiting)
  /\ lnConns' = [lnConns EXCEPT ![Len(lnConns)].closed = @ + 1]
  /\ lnHPc' = "range"
  /\ UNCHANGED << lnOffered, lnConnects, lnConnectsClosed, lnPortClosed, lnDone, lnAPc, lnARet,
                  lnAfter >>
  /\ LnUnchangedOthers

\* connects is closed and empty: the range ends and the deferred close(conns)
\* wakes every Accept that is receiving.
HandleExits ==
  /\ lnHPc = "range"
  /\ lnConnects = << >>
  /\ lnConnectsClosed
  /\ lnHPc' = "exited"
  /\ lnARet' = [a \in Accepters |->
                  IF a \in Waiting THEN [conn |-> NoConn, err |-> "ErrPortClosed"] ELSE lnARet[a]]
  /\ lnAPc' = [a \in Accepters |-> "idle"]
  /\ UNCHANGED << lnOffered, lnConnects, lnConnectsClosed, lnPortClosed, lnDone, lnConns, lnAfter >>
  /\ LnUnchangedOthers

\* Listener.Accept: the select returns at once from a case that is ready, one
\* of them when both are, and waits in both channels otherwise.  The sender
\* of conns never waits in the channel, so no connection is ready here.
Accept39(a) ==
  /\ lnAPc[a] = "idle"
  /\ lnAfter' = [lnAfter EXCEPT ![a] = lnDone]
  /\ \/ /\ lnDone
        /\ lnARet' = [lnARet EXCEPT ![a] = [conn |-> NoConn, err |-> "ErrListenerClosed"]]
        /\ UNCHANGED lnAPc
     \/ /\ lnHPc = "exited"
        /\ lnARet' = [lnARet EXCEPT ![a] = [conn |-> NoConn, err |-> "ErrPortClosed"]]
        /\ UNCHANGED lnAPc
     \/ /\ ~lnDone
        /\ lnHPc # "exited"
        /\ lnAPc' = [lnAPc EXCEPT ![a] = "waiting"]
        /\ lnARet' = [lnARet EXCEPT ![a] = [conn |-> NoConn, err |-> ""]]
  /\ UNCHANGED << lnOffered, lnConnects, lnConnectsClosed, lnPortClosed, lnDone, lnHPc, lnConns >>
  /\ LnUnchangedOthers

\* Listener.Close: close(ln.done), once; every Accept that is receiving wakes.
ListenerClose ==
  /\ lnDone' = TRUE
  /\ IF lnDone
     THEN UNCHANGED << lnAPc, lnARet >>
     ELSE /\ lnARet' = [a \in Accepters |->
                          IF a \in Waiting THEN [conn |-> NoConn, err |-> "ErrListenerClosed"]
                          ELSE lnARet[a]]
          /\ lnAPc' = [a \in Accepters |-> "idle"]
  /\ UNCHANGED << lnOffered, lnConnects, lnConnectsClosed, lnPortClosed, lnHPc, lnConns, lnAfter >>
  /\ LnUnchangedOthers

LnNext ==
  \/ PortFrame
  \/ PortClose
  \/ PortRunExits
  \/ HandleFrame
  \/ HandOff
  \/ HandleRefuse
  \/ HandleExits
  \/ \E a \in Accepters : Accept39(a)
  \/ ListenerClose

SpecListener == LnInit /\ [][LnNext]_vars

\* The connection of the frame handleInbound is at, in this step, is returned
\* by the Accept of a.
ReturnedTo(a) ==
  /\ lnARet'[a].conn # NoConn
  /\ lnARet'[a] # lnARet[a]

\* Every connection made is past the select, but for the last while
\* handleInbound is at the select.
Settled(i) == i < Len(lnConns) \/ lnHPc # "select"

\* C39: every connect frame for the port's callsign that begins with
\* "*** CONNECTED To " makes a connection; the connection is returned by one
\* Accept that was waiting or, with no Accept waiting, closed, never both;
\* and an Accept called after Listener.Close returns no connection.
C39_AcceptedOrClosed ==
  /\ [](lnHPc # "panic")
  /\ [](\A i \in 1..Len(lnConns) :
          /\ lnConns[i].returned + lnConns[i].closed <= 1
          /\ Settled(i) => lnConns[i].returned + lnConns[i].closed = 1)
  /\ [](\A a \in Accepters : lnAfter[a] => lnARet[a].conn = NoConn)
  /\ [][/\ \A a \in Accepters :
             ReturnedTo(a) =>
               /\ lnAPc[a] = "waiting"
               /\ lnConns'[lnARet'[a].conn].returned = 1
               /\ \A b \in Accepters \ {a} : ~ReturnedTo(b)
        /\ (lnHPc = "select" /\ lnConns'[Len(lnConns)].closed = 1) => Waiting = {}]_vars


(***************************************************************************)
(* SpecFlush: Write and Flush of a WINMOR connection, the TNC and the      *)
(* control loop's updateBuffers                                            *)
(***************************************************************************)

MaxFlWrites == 3       \* calls of Write, of one byte each

\* conn.buffers before the first report
NoBuffers == << >>

\* The report of the TNC with recv bytes taken and conf of them confirmed.
BuffersReport(recv, conf) == [BufferOutQueued |-> recv - conf, BufferOutConfirmed |-> conf]

FlUnchangedOthers ==
  UNCHANGED << ansVars, sessVars, outVars, frVars, inVars, lzVars, xVars, stVars, lztVars,
               sortVars, regVars, dlVars, chVars, dxVars, lnVars >>

FlInit ==
  /\ AnsIdle
  /\ OutIdle
  /\ FrIdle
  /\ InIdle
  /\ LzIdle
  /\ XIdle
  /\ StIdle
  /\ LztIdle
  /\ SortIdle
  /\ RegIdle
  /\ DlIdle
  /\ ChIdle
  /\ DxIdle
  /\ LnIdle
  /\ remoteNoMsgs = FALSE
  /\ flPc = "write"
  /\ flSent = 0
  /\ flNWritten = 0
  /\ flLock = FALSE
  /\ flRecv = 0
  /\ flConf = 0
  /\ flReports = << >>
  /\ flBuffers = NoBuffers
  /\ flEarly = FALSE

\* flushLock.Lock, Unlock and Wait: a flag that Lock sets and Unlock clears,
\* whatever it was; Wait returns when the flag is clear.
LockSet(l)   == TRUE
LockClear(l) == FALSE
WaitReturns(l) == ~l

\* Write: conn.Conn.Write(p) has taken the byte.
ConnWrite ==
  /\ flPc \in {"write", "wrote"}
  /\ flSent < MaxFlWrites
  /\ flSent' = flSent + 1
  /\ flPc' = "book"
  /\ UNCHANGED << flNWritten, flLock, flRecv, flConf, flReports, flBuffers, flEarly >>
  /\ FlUnchangedOthers

\* Write: conn.nWritten += n and flushLock.Lock() under conn.mu; Write returns.
WriteBooks ==
  /\ flPc = "book"
  /\ flNWritten' = flNWritten + 1
  /\ flLock' = LockSet(flLock)
  /\ flPc' = "wrote"
  /\ UNCHANGED << flSent, flRecv, flConf, flReports, flBuffers, flEarly >>
  /\ FlUnchangedOthers

\* The caller of Write calls Flush.
FlushCall ==
  /\ flPc = "wrote"
  /\ flPc' = "flush"
  /\ UNCHANGED << flSent, flNWritten, flLock, flRecv, flConf, flReports, flBuffers, flEarly >>
  /\ FlUnchangedOthers

\* Flush: flushLock.Wait() returns.
FlushReturns ==
  /\ flPc = "flush"
  /\ WaitReturns(flLock)
  /\ flPc' = "write"
  /\ flEarly' = (flEarly \/ flConf < flSent)
  /\ UNCHANGED << flSent, flNWritten, flLock, flRecv, flConf, flReports, flBuffers >>
  /\ FlUnchangedOthers

\* The TNC takes a written byte into its out queue and reports its buffers.
TncTakes ==
  /\ flRecv < flSent
  /\ flRecv' = flRecv + 1
  /\ flReports' = Append(flReports, BuffersReport(flRecv + 1, flConf))
  /\ UNCHANGED << flPc, flSent, flNWritten, flLock, flConf, flBuffers, flEarly >>
  /\ FlUnchangedOthers

\* A byte of the out queue is sent and confirmed, and the TNC reports its buffers.
TncConfirms ==
  /\ flConf < flRecv
  /\ flConf' = flConf + 1
  /\ flReports' = Append(flReports, BuffersReport(flRecv, flConf + 1))
  /\ UNCHANGED << flPc, flSent, flNWritten, flLock, flRecv, flBuffers, flEarly >>
  /\ FlUnchangedOthers

\* The control loop gives the next report to updateBuffers.
updateBuffers ==
  /\ flReports # << >>
  /\ LET b == Head(flReports)
     IN  /\ flBuffers' = b
         /\ flLock' = IF b.BufferOutConfirmed >= flNWritten /\ b.BufferOutQueued = 0
                      THEN LockClear(flLock)
                      ELSE flLock
  /\ flReports' = Tail(flReports)
  /\ UNCHANGED << flPc, flSent, flNWritten, flRecv, flConf, flEarly >>
  /\ FlUnchangedOthers

FlTnc == TncTakes \/ TncConfirms

FlNext ==
  \/ ConnWrite
  \/ WriteBooks
  \/ FlushCall
  \/ FlushReturns
  \/ TncTakes
  \/ TncConfirms
  \/ updateBuffers

SpecFlush == FlInit /\ [][FlNext]_vars

\* The TNC works off its queue, the control loop handles every report, and
\* the writing goroutine runs.
SpecFlushFair ==
  /\ FlInit
  /\ [][FlNext]_vars
  /\ WF_vars(WriteBooks)
  /\ WF_vars(FlushReturns)
  /\ WF_vars(FlTnc)
  /\ WF_vars(updateBuffers)

\* The TNC has reported every written byte confirmed and nothing queued.
ReportedAllConfirmed ==
  /\ flBuffers # NoBuffers
  /\ flBuffers.BufferOutConfirmed >= flSent
  /\ flBuffers.BufferOutQueued = 0

\* C40: Flush does not return while written bytes are unconfirmed by the
\* TNC, and a Flush returns once the TNC has reported BufferOutConfirmed at
\* least the total written and BufferOutQueued = 0.
C40_FlushWaitsForTNC ==
  /\ [](~flEarly)
  /\ (flPc = "flush" /\ ReportedAllConfirmed) ~> (flPc # "flush")

====
